---- MODULE Spec2Model ----
(***************************************************************************)
(* Model of the acquisition and persistence pipeline of                    *)
(* vc-scraper-consolidated: the CircuitBreaker and the with_retry          *)
(* decorator of src/lib/utils/retry_logic.py, the two-transport fetch of   *)
(* src/lib/scrapers/base_scraper.py and the change-tracked upsert of       *)
(* src/lib/database/supabase_client.py.  Each part has its own             *)
(* specification; the variables of the other parts stay as constructed.    *)
(*                                                                         *)
(* The breaker is shared by several asyncio tasks (Callers).  A task only  *)
(* yields at `await func(...)`, so one call of the wrapper is two atomic   *)
(* steps: the entry (the OPEN check, up to the invocation of the wrapped   *)
(* operation) and the completion (_on_success / _on_failure / an error     *)
(* outside the filter).  Time is an integer clock advanced by Tick.        *)
(***************************************************************************)
EXTENDS Integers, Sequences, FiniteSets

\* ------------------------------------------------------------------ bounds
MaxThreshold == 2
MaxTimeout == 2
MaxTime == 3
MaxCalls == 5
MaxAttempts == 3
MaxFetchTime == 2
MaxUpserts == 2
MaxStoreTime == 2
MaxBatch == 2
MaxFields == 2
MaxSaved == 1
MaxRuns == 2

\* The tasks that share one breaker.
Callers == {"c1", "c2"}

\* last_failure_time = None
None == -1

VARIABLES
    cb,           \* the CircuitBreaker instance: its fields
    now,          \* time.time()
    pc,           \* per caller: "idle" | "running" (suspended in await func)
    result,       \* per caller: how its last call ended
    snap,         \* per caller: the breaker as it was when its operation was invoked
    probe,        \* per caller: its call made the OPEN -> HALF_OPEN transition
    ver,          \* number of steps that have written the breaker's fields
    fails,        \* qualifying failures since the last success or reset
    probing,      \* a reset happened since the last success (or construction)
    calls,        \* calls of the wrapper so far
    invocations,  \* invocations of the wrapped operation so far
    last,         \* the step that led to this state
    policy,       \* the arguments of with_retry
    rt,           \* one execution of with_retry's wrapper: its locals and what it did
    br,           \* BaseScraper: the breaker of each transport
    fs,           \* one call of scrape_with_fallback: where it is and what it did
    store,        \* the portfolio_companies / team_members table, by (site_id, name)
    changes,      \* the company_changes / member_changes table, in insertion order
    up,           \* the last upsert: its input, what it found and how it ended
    bt,           \* one call of a batch upsert: its input, its tasks and its result
    hx,           \* two records of the cleaner and their content hashes
    pl,           \* one run of run_full_scraping_pipeline: its position and results
    fa,           \* runs of scrape_fortune_articles: the processed-URL file, the deals
    ss,           \* one run of scrape_all_sites and the breaker of PortfolioScraper.scrape
    mg,           \* the migrations ledger and runs of run_pending_migrations
    sq            \* fetches made one after the other through one scraper's breakers

breakerVars == <<cb, now, pc, result, snap, probe, ver, fails, probing, calls, invocations, last>>
callerVars == <<cb, pc, result, snap, probe, ver, fails, probing, calls, invocations, last>>
retryVars == <<policy, rt>>
fetchVars == <<br, fs>>
storeVars == <<store, changes, up, bt>>
runVars == <<ss, mg, sq>>
auxVars == <<hx, pl, fa, ss, mg, sq>>
vars == <<cb, now, pc, result, snap, probe, ver, fails, probing, calls, invocations, last,
          policy, rt, br, fs, store, changes, up, bt, hx, pl, fa, ss, mg, sq>>

States == {"CLOSED", "OPEN", "HALF_OPEN"}

\* ------------------------------------------------------- CircuitBreaker

\* CircuitBreaker.__init__
NewBreaker(threshold, timeout) ==
    [failure_threshold |-> threshold,
     timeout |-> timeout,
     failure_count |-> 0,
     last_failure_time |-> None,
     state |-> "CLOSED"]

\* CircuitBreaker._should_try_reset
ShouldTryReset(b, t) ==
    IF b.last_failure_time = None
    THEN TRUE
    ELSE t - b.last_failure_time >= b.timeout

\* Mutant: the success path clears the count and the time but not the state.
OnSuccessKeepsState(b) ==
    [b EXCEPT !.failure_count = 0,
              !.last_failure_time = None]

\* Mutant: the success path forgets to clear last_failure_time.
OnSuccessKeepsTime(b) ==
    [b EXCEPT !.failure_count = 0,
              !.state = "CLOSED"]

\* CircuitBreaker._on_success
OnSuccess(b) ==
    [b EXCEPT !.failure_count = 0,
              !.state = "CLOSED",
              !.last_failure_time = None]

\* Mutant: the comparison with the threshold is strict.
OnFailureStrict(b, t) ==
    LET c == b.failure_count + 1
    IN  [b EXCEPT !.failure_count = c,
                  !.last_failure_time = t,
                  !.state = IF c > b.failure_threshold THEN "OPEN" ELSE @]

\* Mutant: the count saturates at the threshold.
OnFailureSaturates(b, t) ==
    LET c == IF b.failure_count >= b.failure_threshold
             THEN b.failure_count ELSE b.failure_count + 1
    IN  [b EXCEPT !.failure_count = c,
                  !.last_failure_time = t,
                  !.state = IF c >= b.failure_threshold THEN "OPEN" ELSE @]

\* CircuitBreaker._on_failure
OnFailure(b, t) ==
    LET c == b.failure_count + 1
    IN  [b EXCEPT !.failure_count = c,
                  !.last_failure_time = t,
                  !.state = IF c >= b.failure_threshold THEN "OPEN" ELSE @]

\* Mutant: an error outside the filter is counted as a failure.
OnOtherCounts(b, t) == OnFailure(b, t)

\* async_wrapper, an exception that `except self.expected_exception` does not
\* match: no handler runs, the breaker is not written.
OnOther(b, t) == b

\* Mutant: the reset clears the count but leaves the state OPEN.
EnterKeepsOpen(b, t) ==
    IF b.state = "OPEN"
    THEN IF ShouldTryReset(b, t)
         THEN [b |-> [b EXCEPT !.failure_count = 0], admitted |-> TRUE, reset |-> TRUE]
         ELSE [b |-> b, admitted |-> FALSE, reset |-> FALSE]
    ELSE [b |-> b, admitted |-> TRUE, reset |-> FALSE]

\* Mutant: the cooldown is compared with > instead of >=.
EnterLateReset(b, t) ==
    IF b.state = "OPEN"
    THEN IF b.last_failure_time = None \/ t - b.last_failure_time > b.timeout
         THEN [b |-> [b EXCEPT !.state = "HALF_OPEN", !.failure_count = 0],
               admitted |-> TRUE, reset |-> TRUE]
         ELSE [b |-> b, admitted |-> FALSE, reset |-> FALSE]
    ELSE [b |-> b, admitted |-> TRUE, reset |-> FALSE]

\* async_wrapper, from its first line to the invocation of func: the breaker
\* after the OPEN check, whether func is invoked (admitted) or the circuit-open
\* exception is raised, and whether the OPEN -> HALF_OPEN reset was made.
Enter(b, t) ==
    IF b.state = "OPEN"
    THEN IF ShouldTryReset(b, t)
         THEN [b |-> [b EXCEPT !.state = "HALF_OPEN", !.failure_count = 0],
               admitted |-> TRUE, reset |-> TRUE]
         ELSE [b |-> b, admitted |-> FALSE, reset |-> FALSE]
    ELSE [b |-> b, admitted |-> TRUE, reset |-> FALSE]

\* ----------------------------------------------------------- with_retry

\* The exceptions an operation raises, by the classes they belong to:
\* "transient" is in `exceptions` only, "fatal" in `reraise_exceptions` only,
\* "both" in both, "other" in neither (when `exceptions` is narrower than
\* Exception).
ErrKinds == {"transient", "fatal", "both", "other"}

\* random.random() is in [0, 1), so the jitter factor 0.5 + random.random()
\* is in [0.5, 1.5): in quarters, 2/4 .. 5/4.  Delays are multiples of 4
\* units, so that delay * q / 4 is exact.
JitterQuarters == 2..5

Min(a, b) == IF a <= b THEN a ELSE b

\* with_retry's parameters.  reraise_exceptions = {} stands for None.
Policies ==
    [max_attempts : 1..MaxAttempts,
     backoff_factor : {1, 2},
     jitter : BOOLEAN,
     initial_delay : {4, 8},
     max_delay : {6, 40},
     exceptions : {{"transient", "both"}, ErrKinds},
     reraise_exceptions : {{}, {"fatal", "both"}}]

\* The wrapper before it is called.
RetryIdle(p) ==
    [pc |-> "idle", attempt |-> 0, delay |-> p.initial_delay, last_exception |-> "none",
     invoked |-> 0, sleeps |-> <<>>, raised |-> "none", cause |-> "none"]

\* async_wrapper is called: last_exception = None, delay = initial_delay, and
\* the for loop starts (or, with nothing to iterate, falls through to the raise).
RetryStart(p) ==
    [RetryIdle(p) EXCEPT !.pc = IF p.max_attempts >= 1 THEN "call" ELSE "raised",
                         !.raised = IF p.max_attempts >= 1 THEN "none" ELSE "RetryError"]

\* Mutant: the last-attempt test is off by one, so the loop sleeps once more.
RetryAfterCallSleepsLast(p, r, e, q) ==
    LET r1 == [r EXCEPT !.invoked = @ + 1] IN
    IF e = "ok" THEN [r1 EXCEPT !.pc = "returned"]
    ELSE
    LET r2 == [r1 EXCEPT !.last_exception = e] IN
    IF p.reraise_exceptions # {} /\ e \in p.reraise_exceptions
    THEN [r2 EXCEPT !.pc = "raised", !.raised = e]
    ELSE IF e \notin p.exceptions
    THEN [r2 EXCEPT !.pc = "raised", !.raised = e]
    ELSE IF r.attempt = p.max_attempts
    THEN [r2 EXCEPT !.pc = "raised", !.raised = "RetryError", !.cause = e]
    ELSE LET jittered == IF p.jitter THEN (r.delay * q) \div 4 ELSE r.delay
             actual_delay == Min(jittered, p.max_delay)
         IN  [r2 EXCEPT !.pc = "sleep", !.sleeps = Append(@, actual_delay)]

\* Mutant: the test of reraise_exceptions is missing.
RetryAfterCallNoReraise(p, r, e, q) ==
    LET r1 == [r EXCEPT !.invoked = @ + 1] IN
    IF e = "ok" THEN [r1 EXCEPT !.pc = "returned"]
    ELSE
    LET r2 == [r1 EXCEPT !.last_exception = e] IN
    IF e \notin p.exceptions
    THEN [r2 EXCEPT !.pc = "raised", !.raised = e]
    ELSE IF r.attempt = p.max_attempts - 1
    THEN [r2 EXCEPT !.pc = "raised", !.raised = "RetryError", !.cause = e]
    ELSE LET jittered == IF p.jitter THEN (r.delay * q) \div 4 ELSE r.delay
             actual_delay == Min(jittered, p.max_delay)
         IN  [r2 EXCEPT !.pc = "sleep", !.sleeps = Append(@, actual_delay)]

\* Mutant: the loop gives up one attempt early.
RetryAfterCallGivesUpEarly(p, r, e, q) ==
    LET r1 == [r EXCEPT !.invoked = @ + 1] IN
    IF e = "ok" THEN [r1 EXCEPT !.pc = "returned"]
    ELSE
    LET r2 == [r1 EXCEPT !.last_exception = e] IN
    IF p.reraise_exceptions # {} /\ e \in p.reraise_exceptions
    THEN [r2 EXCEPT !.pc = "raised", !.raised = e]
    ELSE IF e \notin p.exceptions
    THEN [r2 EXCEPT !.pc = "raised", !.raised = e]
    ELSE IF r.attempt >= p.max_attempts - 2
    THEN [r2 EXCEPT !.pc = "raised", !.raised = "RetryError", !.cause = e]
    ELSE LET jittered == IF p.jitter THEN (r.delay * q) \div 4 ELSE r.delay
             actual_delay == Min(jittered, p.max_delay)
         IN  [r2 EXCEPT !.pc = "sleep", !.sleeps = Append(@, actual_delay)]

\* One iteration of the for loop, from `await func(...)` returning or raising
\* (e: "ok" or the kind of the exception) to the return, the raise or the call
\* of asyncio.sleep.  q is the jitter drawn, in quarters.
RetryAfterCall(p, r, e, q) ==
    LET r1 == [r EXCEPT !.invoked = @ + 1] IN
    IF e = "ok" THEN [r1 EXCEPT !.pc = "returned"]
    ELSE
    LET r2 == [r1 EXCEPT !.last_exception = e] IN
    IF p.reraise_exceptions # {} /\ e \in p.reraise_exceptions
    THEN [r2 EXCEPT !.pc = "raised", !.raised = e]
    ELSE IF e \notin p.exceptions
    THEN [r2 EXCEPT !.pc = "raised", !.raised = e]
    ELSE IF r.attempt = p.max_attempts - 1
    THEN [r2 EXCEPT !.pc = "raised", !.raised = "RetryError", !.cause = e]
    ELSE LET jittered == IF p.jitter THEN (r.delay * q) \div 4 ELSE r.delay
             actual_delay == Min(jittered, p.max_delay)
         IN  [r2 EXCEPT !.pc = "sleep", !.sleeps = Append(@, actual_delay)]

\* Mutant: the delay is not multiplied after the sleep.
RetryAfterSleepNoBackoff(p, r) ==
    LET r1 == [r EXCEPT !.attempt = @ + 1] IN
    IF r1.attempt < p.max_attempts
    THEN [r1 EXCEPT !.pc = "call"]
    ELSE [r1 EXCEPT !.pc = "raised", !.raised = "RetryError", !.cause = r.last_exception]

\* asyncio.sleep returns: delay *= backoff_factor, and the loop goes to its
\* next iteration, or past its end to the raise of RetryError.
RetryAfterSleep(p, r) ==
    LET r1 == [r EXCEPT !.delay = @ * p.backoff_factor, !.attempt = @ + 1] IN
    IF r1.attempt < p.max_attempts
    THEN [r1 EXCEPT !.pc = "call"]
    ELSE [r1 EXCEPT !.pc = "raised", !.raised = "RetryError", !.cause = r.last_exception]

\* ------------------------------------------ BaseScraper: the fetch layer

\* fetch_with_requests (aiohttp) and fetch_with_playwright.
Transports == {"requests", "playwright"}

OtherTransport(t) == IF t = "requests" THEN "playwright" ELSE "requests"

\* BaseScraper.__init__: the breakers' thresholds, and their timeouts
\* (300.0 s and 600.0 s) in clock units of 300 s.
HttpThreshold == 5
HttpTimeout == 1
PlaywrightThreshold == 3
PlaywrightTimeout == 2

\* @with_retry(max_attempts=3, ...) on both fetch methods.
FetchMaxAttempts == 3

\* int(response.headers.get('Retry-After', 60))
DefaultRetryAfter == 60

\* What a call of _fetch raises: aiohttp.ClientError / asyncio.TimeoutError
\* ("transient"), RateLimitError ("rate_limit"), any other Exception raised in
\* the transport ("validation"), and the plain Exception the breaker raises
\* when it is OPEN ("circuit_open").
FetchErrs == {"transient", "rate_limit", "validation", "circuit_open"}

\* expected_exception of each transport's breaker.
BreakerFilter(t) ==
    IF t = "requests" THEN {"transient", "rate_limit"} ELSE FetchErrs

\* How an invocation of a transport ends.  Only the aiohttp transport raises
\* RateLimitError.
TransportOutcomes(t) ==
    IF t = "requests"
    THEN {"ok", "transient", "rate_limit", "validation"}
    ELSE {"ok", "transient", "validation"}

\* The Retry-After header of a 429 response: absent, or a number of seconds.
Headers == {{}, {5}}

\* Mutant: the header is not read.
MandatedSleepIgnoresHeader(h) == DefaultRetryAfter

\* retry_after = int(response.headers.get('Retry-After', 60))
MandatedSleep(h) == IF h = {} THEN DefaultRetryAfter ELSE CHOOSE n \in h : TRUE

NewBreakers ==
    [t \in Transports |->
        IF t = "requests"
        THEN NewBreaker(HttpThreshold, HttpTimeout)
        ELSE NewBreaker(PlaywrightThreshold, PlaywrightTimeout)]

\* Mutant: the aiohttp fetch is given one more attempt.
FetchPolicyExtraAttempt(t) ==
    [max_attempts |-> IF t = "requests" THEN FetchMaxAttempts + 1 ELSE FetchMaxAttempts,
     backoff_factor |-> 2,
     jitter |-> TRUE,
     initial_delay |-> 4,
     max_delay |-> 240,
     exceptions |-> IF t = "requests" THEN {"transient"} ELSE FetchErrs,
     reraise_exceptions |-> {}]

\* The with_retry arguments of each fetch method, the others at their
\* defaults (1.0 s and 60.0 s in quarters of a second).
FetchPolicy(t) ==
    [max_attempts |-> FetchMaxAttempts,
     backoff_factor |-> 2,
     jitter |-> TRUE,
     initial_delay |-> 4,
     max_delay |-> 240,
     exceptions |-> IF t = "requests" THEN {"transient"} ELSE FetchErrs,
     reraise_exceptions |-> {}]

\* The breakers a call of scrape_with_fallback can find: as constructed, or
\* as earlier calls on the same scraper left them at time 0 (one failed
\* attempt sequence on the aiohttp transport, or a breaker that was opened).
PriorBreakers ==
    LET nb == NewBreakers
        http == {nb["requests"],
                 [nb["requests"] EXCEPT !.failure_count = FetchMaxAttempts,
                                        !.last_failure_time = 0],
                 [nb["requests"] EXCEPT !.failure_count = HttpThreshold,
                                        !.last_failure_time = 0, !.state = "OPEN"]}
        pw == {nb["playwright"],
               [nb["playwright"] EXCEPT !.failure_count = PlaywrightThreshold,
                                        !.last_failure_time = 0, !.state = "OPEN"]}
    IN  {[t \in Transports |-> IF t = "requests" THEN h ELSE w] : h \in http, w \in pw}

\* The extremes of the jitter factor, in quarters.
FetchJitterQuarters == {2, 5}

\* scrape_with_fallback before it is called.
FetchIdle ==
    [pc |-> "idle", primary |-> "requests", stage |-> "primary", cur |-> "requests",
     att |-> [t \in Transports |-> 0],
     inv |-> [t \in Transports |-> 0],
     slept |-> [t \in Transports |-> 0],
     first |-> [t \in Transports |-> "none"],
     outs |-> [t \in Transports |-> {}],
     br0 |-> NewBreakers,
     br1 |-> NewBreakers,
     mandated |-> <<>>,
     perr |-> "none",
     ferr |-> "none",
     out |-> [kind |-> "none", via |-> "none", msg |-> <<>>]]

\* Mutant: both fetch methods are decorated with one breaker object.
OneBreakerForBoth(brs, t, b) == [u \in Transports |-> b]

\* The breaker a fetch method is decorated with is the scraper's own breaker
\* of that transport: what a call through it does is seen in that object only.
WithBreaker(brs, t, b) == [brs EXCEPT ![t] = b]

\* scrape_with_fallback is called: the primary transport is chosen and its
\* fetch method (the retry wrapper) is called.
FetchBegin(t, b) ==
    [FetchIdle EXCEPT !.pc = "attempt", !.primary = t, !.cur = t, !.br0 = b, !.br1 = b]

\* Mutant: the fallback fetches through the transport that has just failed.
FailedSameTransport(f, e, r, p) ==
    IF f.stage = "primary"
    THEN [fs |-> [f EXCEPT !.pc = "attempt", !.stage = "fallback", !.perr = e],
          rt |-> RetryStart(FetchPolicy(f.cur)),
          policy |-> FetchPolicy(f.cur)]
    ELSE [fs |-> [f EXCEPT !.pc = "done", !.ferr = e,
                           !.out = [kind |-> "ScrapingError", via |-> "none",
                                    msg |-> <<"url", e>>]],
          rt |-> r,
          policy |-> p]

\* The except clauses of scrape_with_fallback: the primary's failure starts the
\* fetch through the other transport, the fallback's failure raises
\* ScrapingError(f"Failed to scrape {url}: {fallback_error}").
Failed(f, e, r, p) ==
    IF f.stage = "primary"
    THEN LET o == OtherTransport(f.cur) IN
         [fs |-> [f EXCEPT !.pc = "attempt", !.stage = "fallback", !.cur = o, !.perr = e],
          rt |-> RetryStart(FetchPolicy(o)),
          policy |-> FetchPolicy(o)]
    ELSE [fs |-> [f EXCEPT !.pc = "done", !.ferr = e,
                           !.out = [kind |-> "ScrapingError", via |-> "none",
                                    msg |-> <<"url", e>>]],
          rt |-> r,
          policy |-> p]

\* Where the call is once the retry wrapper has handled the end of an attempt
\* or of a sleep: in the next attempt, in a backoff sleep, in _parse_page, or
\* in the except clause with the exception the wrapper raised.
AfterRetry(f, r, p) ==
    IF r.pc = "returned" THEN [fs |-> [f EXCEPT !.pc = "parse"], rt |-> r, policy |-> p]
    ELSE IF r.pc = "sleep"
    THEN [fs |-> [f EXCEPT !.pc = "sleep", !.slept[f.cur] = @ + 1], rt |-> r, policy |-> p]
    ELSE IF r.pc = "call" THEN [fs |-> [f EXCEPT !.pc = "attempt"], rt |-> r, policy |-> p]
    ELSE Failed(f, r.raised, r, p)

\* ------------------------------------- DataCleaner.calculate_content_hash

\* The field names in the order Python compares strings, and the values.
FieldOrder == <<"content", "location", "name", "scraped_at", "sector", "website">>
FieldValues == {"x", "y"}

\* The position of a field name in the order of str.
Rank(f) == CHOOSE i \in 1..Len(FieldOrder) : FieldOrder[i] = f

\* Fields of a cleaned record, in the order clean_portfolio_company sets them.
RecordFields == <<"name", "sector", "website", "location">>

\* The fields the hashed records are built from.
Fields == {RecordFields[i] : i \in 1..MaxFields}

\* A dict: its items in insertion order, no key twice.
Dicts ==
    LET seqs == UNION {[1..n -> Fields \X FieldValues] : n \in 0..MaxFields} IN
    {d \in seqs : \A i, j \in 1..Len(d) : i # j => d[i][1] # d[j][1]}

\* The (field, value) pairs a dict holds.
ItemSet(d) == {d[i] : i \in 1..Len(d)}

RECURSIVE InsertItem(_, _)
\* one item put in its place in a list sorted by key
InsertItem(sorted, item) ==
    IF sorted = <<>> THEN <<item>>
    ELSE IF Rank(item[1]) < Rank(sorted[1][1]) THEN <<item>> \o sorted
    ELSE <<sorted[1]>> \o InsertItem(Tail(sorted), item)

RECURSIVE SortedItemsFrom(_, _)
SortedItemsFrom(d, n) ==
    IF n = 0 THEN <<>> ELSE InsertItem(SortedItemsFrom(d, n - 1), d[n])

\* Mutant: the items are hashed in insertion order.
UnsortedItems(d) == d

\* sorted(data.items()): the keys are distinct, so the order is that of the keys.
SortedItems(d) == SortedItemsFrom(d, Len(d))

\* hashlib.md5(str(sorted(data.items())).encode()).hexdigest(): the digest
\* stands for the string it was computed from.
CalculateContentHash(d) == <<"md5", SortedItems(d)>>

\* --------------------------------- SupabaseClient: change-tracked upsert

\* The natural keys (site_id, name) and the content of a cleaned record.
Keys == {"k1", "k2"}
Contents == {"a", "b"}

\* A missing content_hash (None or '').
NoHash == <<>>

\* The hash of a cleaned record: calculate_content_hash over the dict, which
\* holds scraped_at already when the hash is computed.
ContentHash(content, scraped_at) ==
    CalculateContentHash(<< <<"content", content>>, <<"scraped_at", scraped_at>> >>)

\* DataCleaner.clean_portfolio_company / clean_team_member at time t.
Cleaned(k, content, t) ==
    [name |-> k, content |-> content, scraped_at |-> t,
     content_hash |-> ContentHash(content, t)]

RowFields ==
    {"content", "scraped_at", "content_hash",
     "created_at", "first_seen_at", "last_seen_at", "updated_at"}

\* An empty table: the select returns no row for any key.
EmptyTable == [k \in Keys |-> <<>>]

\* What can go wrong in the client's calls to the database.
Faults == {"none", "select_raises", "write_raises", "write_empty", "change_raises"}

\* Mutant: a change is recorded whenever both hashes are present.
ShouldRecordAlways(old_hash, new_hash) ==
    old_hash # NoHash /\ new_hash # NoHash

\* if old_hash and new_hash and old_hash != new_hash
ShouldRecord(old_hash, new_hash) ==
    old_hash # NoHash /\ new_hash # NoHash /\ old_hash # new_hash

\* record_company_change / record_member_change: the fields that differ, and the
\* row inserted into the change table when there are any.
Diff(old, new) == {f \in RowFields : old[f] # new[f]}

RecordChange(ch, k, old, new, t, fault) ==
    IF Diff(old, new) # {} /\ fault # "change_raises"
    THEN Append(ch, [key |-> k, fields |-> Diff(old, new),
                     previous_hash |-> old.content_hash,
                     new_hash |-> new.content_hash,
                     changed_at |-> t])
    ELSE ch

\* Mutant: the update leaves the stored content_hash as it was.
UpdatedRowKeepsHash(existing_record, rec, t) ==
    [existing_record EXCEPT !.content = rec.content,
                            !.scraped_at = rec.scraped_at,
                            !.updated_at = t,
                            !.last_seen_at = t]

\* Mutant: the update also writes first_seen_at.
UpdatedRowResetsFirstSeen(existing_record, rec, t) ==
    [existing_record EXCEPT !.content = rec.content,
                            !.scraped_at = rec.scraped_at,
                            !.content_hash = rec.content_hash,
                            !.updated_at = t,
                            !.first_seen_at = t,
                            !.last_seen_at = t]

\* .update(company_data): the row after the update, with the record's fields
\* and the two timestamps the update branch sets.
UpdatedRow(existing_record, rec, t) ==
    [existing_record EXCEPT !.content = rec.content,
                            !.scraped_at = rec.scraped_at,
                            !.content_hash = rec.content_hash,
                            !.updated_at = t,
                            !.last_seen_at = t]

\* upsert_portfolio_company / upsert_team_member at time t, where the select
\* returned the rows existing: the tables after the call and how it ended.  default is what the database puts in a column
\* the insert leaves out (updated_at).
UpsertFound(st, ch, rec, existing, t, fault, default) ==
    LET k == rec.name
        same(o) == [store |-> st, changes |-> ch, op |-> o]
    IN
    IF fault = "select_raises" THEN same("raised")
    ELSE IF existing # <<>>
    THEN LET existing_record == existing[1]
             old_hash == existing_record.content_hash
             new_hash == rec.content_hash
             updated_record == UpdatedRow(existing_record, rec, t)
         IN  IF fault = "write_raises" THEN same("raised")
             ELSE IF fault = "write_empty" THEN same("none")
             ELSE [store |-> [st EXCEPT ![k] = <<updated_record>> \o Tail(@)],
                   changes |-> IF ShouldRecord(old_hash, new_hash)
                               THEN RecordChange(ch, k, existing_record, updated_record,
                                                 t, fault)
                               ELSE ch,
                   op |-> "updated"]
    ELSE LET new_record ==
                 [content |-> rec.content, scraped_at |-> rec.scraped_at,
                  content_hash |-> rec.content_hash,
                  created_at |-> t, first_seen_at |-> t, last_seen_at |-> t,
                  updated_at |-> default]
         IN  IF fault = "write_raises" THEN same("raised")
             ELSE IF fault = "write_empty" THEN same("none")
             ELSE [store |-> [st EXCEPT ![k] = Append(@, new_record)],
                   changes |-> ch,
                   op |-> "inserted"]

\* The select and the write of one upsert are synchronous calls of the client
\* with no await between them: the upsert works on the rows as they are.
Upsert(st, ch, rec, t, fault, default) ==
    UpsertFound(st, ch, rec, st[rec.name], t, fault, default)

\* ------------------------- SupabaseClient: upsert_*_with_change_tracking

\* A stored row as an insert at time 0 leaves it.
StoredAtZero(content) ==
    [content |-> content, scraped_at |-> 0, content_hash |-> ContentHash(content, 0),
     created_at |-> 0, first_seen_at |-> 0, last_seen_at |-> 0, updated_at |-> None]

\* The table a batch can find: empty, or with a record that an earlier run
\* stored under the first key.
PriorStores ==
    {EmptyTable} \cup {[EmptyTable EXCEPT !["k1"] = <<StoredAtZero(c)>>] : c \in Contents}

\* The lists of cleaned records a batch upsert is called with.
Batches ==
    LET recs == {Cleaned(k, c, 0) : k \in Keys, c \in Contents} IN
    UNION {[1..n -> recs] : n \in 1..MaxBatch}

\* The coroutine of one record's upsert, before it has run.
NewTask ==
    [pc |-> "ready", op |-> "idle", fault |-> "none", existing |-> <<>>,
     wbefore |-> <<>>, after |-> <<>>, logged |-> 0, ord |-> 0]

\* upsert_*_with_change_tracking(site_id, records): the tasks are created.
NewBatch(records) ==
    [batch |-> records,
     task |-> [i \in 1..Len(records) |-> NewTask],
     committed |-> 0,
     finished |-> FALSE,
     success_count |-> 0]

NoBatch == NewBatch(<<>>)

\* Mutant: the client is asynchronous and the coroutine is suspended after
\* its select.
UpsertSuspendsAfterSelect == TRUE

\* Whether an upsert coroutine can be suspended between its select and its
\* write: both are blocking calls of the synchronous client, and the one
\* await (of record_*_change) is reached after the write and never suspends.
UpsertSuspends == FALSE

\* Mutant: a gathered result counts unless it is an exception.
CountsAsSuccessNone(op) == op # "raised"

\* "elif result": the task returned a record (not None, not an exception).
CountsAsSuccess(op) == op \in {"inserted", "updated"}

RECURSIVE CountSuccesses(_, _)
\* the loop over the gathered results
CountSuccesses(task, n) ==
    IF n = 0 THEN 0
    ELSE CountSuccesses(task, n - 1) + (IF CountsAsSuccess(task[n].op) THEN 1 ELSE 0)

\* ------------------------------------- SupabaseClient.upsert_fortune_deals

\* What can go wrong in the deal upsert's calls to the database.
DealFaults == {"none", "select_raises", "write_raises", "write_empty"}

\* One iteration of the loop of upsert_fortune_deals at time t, for a cleaned
\* deal keyed by (source_article_url, startup_name): the tables after it and
\* how it ended.  An exception is caught and logged inside the loop.  default
\* is what the database puts in the columns an insert leaves out.
DealUpsert(st, ch, deal, t, fault, default) ==
    LET k == deal.name
        existing == st[k]
        same(o) == [store |-> st, changes |-> ch, op |-> o]
    IN
    IF fault = "select_raises" THEN same("raised")
    ELSE IF fault = "write_raises" THEN same("raised")
    ELSE IF fault = "write_empty" THEN same("none")
    ELSE IF existing # <<>>
    THEN [store |-> [st EXCEPT ![k] =
                        <<[existing[1] EXCEPT !.content = deal.content,
                                              !.scraped_at = deal.scraped_at,
                                              !.content_hash = deal.content_hash,
                                              !.updated_at = t]>> \o Tail(@)],
          changes |-> ch,
          op |-> "updated"]
    ELSE [store |-> [st EXCEPT ![k] =
                        Append(@, [content |-> deal.content,
                                   scraped_at |-> deal.scraped_at,
                                   content_hash |-> deal.content_hash,
                                   created_at |-> t,
                                   first_seen_at |-> default,
                                   last_seen_at |-> default,
                                   updated_at |-> default])],
          changes |-> ch,
          op |-> "inserted"]

\* Nothing was hashed.
NoHashing == [r1 |-> <<>>, r2 |-> <<>>, h1 |-> NoHash, h2 |-> NoHash, done |-> FALSE]

\* ------------------------------------------- run_full_scraping_pipeline

\* The steps in the order the pipeline runs them, and the status with which
\* each stage function reports that it did its work.
StageOrder == <<"portfolios", "vc_teams", "portfolio_teams", "fortune_deals">>

DoneStatus(stage) == IF stage = "fortune_deals" THEN "success" ELSE "completed"

\* How a stage function ends: it returns its status and what it saved, it
\* returns {"status": "error"}, or an exception leaves it.
StageOutcomes ==
    {[kind |-> "returns", ok |-> TRUE, saved |-> n] : n \in 0..MaxSaved}
    \cup {[kind |-> "returns", ok |-> FALSE, saved |-> 0],
          [kind |-> "raises", ok |-> FALSE, saved |-> 0]}

\* The overall status, from the steps that were recorded.
PipelineStatus(steps) ==
    LET recorded == {i \in 1..Len(StageOrder) : steps[StageOrder[i]].status # "absent"}
        successful == {i \in recorded :
                          steps[StageOrder[i]].status \in {"success", "completed"}}
    IN  IF successful = recorded THEN "success"
        ELSE IF successful # {} THEN "partial_success"
        ELSE "failed"

\* The pipeline before it is called.
NoPipeline ==
    [pc |-> "idle", next |-> 1, ran |-> <<>>,
     steps |-> [st \in {StageOrder[i] : i \in 1..Len(StageOrder)} |->
                   [status |-> "absent", saved |-> 0]],
     pipeline_status |-> "running"]

\* The await of stage number pl.next returns or raises: the step is recorded
\* and the next stage is started, or the except clause ends the pipeline;
\* after the last stage the overall status is computed.
AfterStage(p, o) ==
    LET stage == StageOrder[p.next]
        p1 == [p EXCEPT !.ran = Append(@, stage)]
    IN  IF o.kind = "raises"
        THEN [p1 EXCEPT !.pc = "done", !.pipeline_status = "error"]
        ELSE LET p2 == [p1 EXCEPT !.steps[stage] =
                            [status |-> IF o.ok THEN DoneStatus(stage) ELSE "error",
                             saved |-> o.saved]]
             IN  IF p.next < Len(StageOrder)
                 THEN [p2 EXCEPT !.next = @ + 1]
                 ELSE [p2 EXCEPT !.pc = "done",
                                 !.pipeline_status = PipelineStatus(p2.steps)]

\* ------------------------------------------------ scrape_fortune_articles

\* The article URLs of a run, and the deals the text of each article holds.
ArticleUrls == <<"u1", "u2">>

UrlSet == {ArticleUrls[i] : i \in 1..Len(ArticleUrls)}

ArticleDeals(u) == IF u = "u1" THEN {"d1", "d2"} ELSE {"d3"}

\* How the await of extract_deals_from_article ends for an article: the page
\* was fetched and deals were extracted, the page was fetched and held none,
\* the fetch (or the extraction) failed inside extract_deals_from_article,
\* whose except clause returns [], or an exception reached the loop.
ArticleOutcomes == {"deals", "no_deals", "fetch_failed", "raises"}

\* Before the first run: nothing was processed or persisted.
NoArticles ==
    [pc |-> "idle", run |-> 0, new_urls |-> <<>>, i |-> 0,
     fetched |-> [u \in UrlSet |-> "none"],
     extracted |-> [u \in UrlSet |-> {}],
     all_deals |-> {},
     successfully_processed |-> {},
     processed |-> {},
     persisted |-> {},
     saved_count |-> 0]

\* scrape_fortune_articles(article_urls, config, processed_urls_file) up to
\* its first await of extract_deals_from_article, or to its return when every
\* URL was processed before.
ArticlesBegin(f) ==
    LET IsNew(u) == u \notin f.processed
        new_urls == SelectSeq(ArticleUrls, IsNew)
        f1 == [f EXCEPT !.run = @ + 1, !.new_urls = new_urls, !.all_deals = {},
                        !.successfully_processed = {}, !.saved_count = 0]
    IN  IF new_urls = <<>>
        THEN [f1 EXCEPT !.pc = "returned", !.i = 0]
        ELSE [f1 EXCEPT !.pc = "extracting", !.i = 1]

\* The loop body after the await for article f.i.
AfterArticle(f, outcome) ==
    LET url == f.new_urls[f.i]
        deals == IF outcome = "deals" THEN ArticleDeals(url) ELSE {}
    IN  IF outcome = "raises"
        THEN [f EXCEPT !.fetched[url] = "raised", !.extracted[url] = {}]
        ELSE [f EXCEPT !.fetched[url] = IF outcome = "fetch_failed" THEN "failed" ELSE "ok",
                       !.extracted[url] = deals,
                       !.all_deals = @ \cup deals,
                       !.successfully_processed = @ \cup {url}]

\* After the loop: upsert_fortune_deals persists the deals in stored (the
\* others fail and are logged), and the processed-URL file is rewritten.
SaveAndReturn(f, stored) ==
    [f EXCEPT !.pc = "returned",
              !.persisted = @ \cup stored,
              !.saved_count = Cardinality(stored),
              !.processed = @ \cup f.successfully_processed]

\* ------------------------------------------------------ scrape_all_sites

\* config.get_vc_sites(): the active sites, in the order they are scraped.
MaxSites == 2
Sites == 1..MaxSites
MaxSiteTime == 2

\* @CircuitBreaker(failure_threshold=3, timeout=60.0) on PortfolioScraper.scrape:
\* the decorator is evaluated once, in the class body, so the one breaker it
\* constructs guards `scrape` of every PortfolioScraper instance.  The timeout
\* is in minutes here; expected_exception is Exception.
ScrapeThreshold == 3
ScrapeTimeout == 1

\* @with_retry(max_attempts=3, exceptions=(Exception,)) on scrape_portfolio_page.
PageErrs == {"ScrapingError", "circuit_open"}
PagePolicy ==
    [max_attempts |-> 3,
     backoff_factor |-> 2,
     jitter |-> TRUE,
     initial_delay |-> 4,
     max_delay |-> 240,
     exceptions |-> PageErrs,
     reraise_exceptions |-> {}]

\* scrape_all_sites before it is called.  invoked[i]: the scrapes of site i in
\* which scrape_with_fallback ran (a new scraper's breakers are CLOSED, so each
\* of them invokes a transport); rejected[i]: the scrapes the breaker of
\* `scrape` refused.
NoSites ==
    [pc |-> "idle", i |-> 0,
     cb |-> NewBreaker(ScrapeThreshold, ScrapeTimeout),
     rt |-> RetryIdle(PagePolicy),
     results |-> <<>>,
     setup |-> [i \in Sites |-> "none"],
     invoked |-> [i \in Sites |-> 0],
     rejected |-> [i \in Sites |-> 0],
     exhausted |-> [i \in Sites |-> FALSE],
     summary |-> [sites_processed |-> 0, sites_successful |-> 0, sites_failed |-> 0]]

RECURSIVE CountStatus(_, _)
CountStatus(results, status) ==
    IF results = <<>> THEN 0
    ELSE (IF Head(results) = status THEN 1 ELSE 0) + CountStatus(Tail(results), status)

\* scrape_portfolio returns its result dictionary (status "success", or
\* "error" from its except clause); the loop of scrape_all_sites appends it
\* and goes on to the next site, or computes the summary after the last one.
SiteResult(s, status) ==
    LET results == Append(s.results, status)
        s1 == [s EXCEPT !.results = results]
    IN  IF s.i < MaxSites
        THEN [s1 EXCEPT !.pc = "setup", !.i = @ + 1]
        ELSE [s1 EXCEPT !.pc = "done",
                        !.summary = [sites_processed |-> MaxSites,
                                     sites_successful |-> CountStatus(results, "success"),
                                     sites_failed |-> Len(results) - CountStatus(results, "success")]]

\* Where scrape_portfolio is once the retry wrapper of scrape_portfolio_page
\* has handled the end of an attempt or of a sleep.
AfterPageRetry(s, r) ==
    LET s1 == [s EXCEPT !.rt = r] IN
    IF r.pc = "returned" THEN [s1 EXCEPT !.pc = "persist"]
    ELSE IF r.pc = "sleep" THEN [s1 EXCEPT !.pc = "sleep"]
    ELSE IF r.pc = "call" THEN [s1 EXCEPT !.pc = "attempt"]
    ELSE SiteResult([s1 EXCEPT !.exhausted[s.i] = (r.raised = "RetryError")], "error")

\* ------------------------------------------------------ MigrationManager

\* The *.sql files of the migrations directory, named by their numeric
\* prefixes, and the calls of run_pending_migrations.
MaxFiles == 2
MaxMigrationRuns == 2
MigrationFiles == 1..MaxFiles

\* get_migration_files: sql_files.sort(key=lambda x: x.name)
RECURSIVE SortedFiles(_)
SortedFiles(files) ==
    IF files = {} THEN <<>>
    ELSE LET m == CHOOSE x \in files : \A y \in files : x <= y
         IN  <<m>> \o SortedFiles(files \ {m})

\* get_executed_migrations: the filenames of the ledger, or [] when the
\* select raises.
GetExecutedMigrations(ledger, read_ok) ==
    IF read_ok THEN {ledger[i] : i \in 1..Len(ledger)} ELSE {}

\* get_pending_migrations
GetPendingMigrations(ledger, read_ok) ==
    SortedFiles(MigrationFiles \ GetExecutedMigrations(ledger, read_ok))

\* How execute_migration ends: every statement and the ledger insert succeed,
\* a statement raises, or the statements succeed and the insert raises.
MigrationOutcomes == {"ok", "statement_raises", "insert_raises"}

\* No run was made yet.  ran: the executions in order, each with its run, its
\* file, whether the file was in the ledger when it was executed, whether every
\* statement succeeded, and whether the filename was added to the ledger.
NoMigrations ==
    [pc |-> "idle", run |-> 0, ledger |-> <<>>, pending |-> <<>>, i |-> 0, ran |-> <<>>,
     executed_count |-> 0, failed_count |-> 0]

\* run_pending_migrations up to the call of execute_migration on the first
\* pending file, or to its return when nothing is pending.
MigrationsBegin(m, read_ok) ==
    LET pending_migrations == GetPendingMigrations(m.ledger, read_ok) IN
    [m EXCEPT !.run = @ + 1,
              !.pending = pending_migrations,
              !.i = 1,
              !.executed_count = 0,
              !.failed_count = 0,
              !.pc = IF pending_migrations = <<>> THEN "returned" ELSE "executing"]

\* execute_migration(migration) and the rest of the loop body.  The ledger's
\* filename column is UNIQUE: the insert of a filename it holds raises.
ExecuteMigration(m, outcome) ==
    LET file == m.pending[m.i]
        in_ledger == \E j \in 1..Len(m.ledger) : m.ledger[j] = file
        statements_ok == outcome # "statement_raises"
        inserted == statements_ok /\ outcome = "ok" /\ ~in_ledger
        m1 == [m EXCEPT !.ledger = IF inserted THEN Append(@, file) ELSE @,
                        !.ran = Append(@, [run |-> m.run, file |-> file,
                                           was_in_ledger |-> in_ledger,
                                           statements_ok |-> statements_ok,
                                           recorded |-> inserted]),
                        !.executed_count = IF inserted THEN @ + 1 ELSE @,
                        !.failed_count = IF inserted THEN @ ELSE @ + 1]
    IN  IF m.i < Len(m.pending)
        THEN [m1 EXCEPT !.i = @ + 1]
        ELSE [m1 EXCEPT !.pc = "returned"]

\* ------------------------------- fetches one after the other on one scraper

MaxFetches == 3
MaxSeqTime == 2

\* Mutant: RateLimitError is missing from the http breaker's expected_exception.
AfterInvocationNoRateLimit(b, t, o, time) ==
    IF o = "ok" THEN OnSuccess(b)
    ELSE IF o \in BreakerFilter(t) \ {"rate_limit"} THEN OnFailure(b, time)
    ELSE OnOther(b, time)

\* The breaker's wrapper after the invocation of _fetch: _on_success, or
\* _on_failure for an exception of expected_exception.
AfterInvocation(b, t, o, time) ==
    IF o = "ok" THEN OnSuccess(b)
    ELSE IF o \in BreakerFilter(t) THEN OnFailure(b, time)
    ELSE OnOther(b, time)

\* A new scraper on which no fetch was made.  inv: the invocations of each
\* transport; all_counted: every invocation so far failed with an error of its
\* breaker's filter; reset: a call found the cooldown of an OPEN breaker over.
NoSequence ==
    [pc |-> "idle", cur |-> "requests", fetches |-> 0,
     br |-> NewBreakers,
     rt |-> RetryIdle(FetchPolicy("requests")),
     inv |-> [t \in Transports |-> 0],
     rejected |-> [t \in Transports |-> 0],
     all_counted |-> TRUE,
     reset |-> FALSE]

\* fetch_with_requests / fetch_with_playwright is called: the retry wrapper starts.
SeqBegin(s, t) ==
    [s EXCEPT !.pc = "attempt", !.cur = t, !.fetches = @ + 1,
              !.rt = RetryStart(FetchPolicy(t))]

\* Where the fetch is once the retry wrapper has handled the end of an attempt
\* or of a sleep; when the wrapper has returned or raised, the next fetch can
\* be made.
SeqAfterRetry(s, r) ==
    [s EXCEPT !.rt = r,
              !.pc = IF r.pc = "sleep" THEN "sleep"
                     ELSE IF r.pc = "call" THEN "attempt" ELSE "idle"]

\* One attempt of the fetch: the body calls _fetch through the transport's
\* breaker, which raises or invokes the transport; o is how the invocation
\* ends and q the jitter of the retry sleep.
SeqAttemptOf(s, o, q, time) ==
    LET t == s.cur
        p == FetchPolicy(t)
        e == Enter(s.br[t], time)
        s1 == [s EXCEPT !.reset = @ \/ e.reset]
    IN  IF ~e.admitted
        THEN SeqAfterRetry([s1 EXCEPT !.br = WithBreaker(@, t, e.b),
                                      !.rejected[t] = @ + 1],
                           RetryAfterCall(p, s.rt, "circuit_open", q))
        ELSE SeqAfterRetry([s1 EXCEPT !.br = WithBreaker(@, t, AfterInvocation(e.b, t, o, time)),
                                      !.inv[t] = @ + 1,
                                      !.all_counted = @ /\ o \in BreakerFilter(t)],
                           RetryAfterCall(p, s.rt, o, q))

\* The cleaner, the pipeline and the article runs are not part of the other
\* specifications.
RunsUnused ==
    /\ ss = NoSites
    /\ mg = NoMigrations
    /\ sq = NoSequence

AuxUnused ==
    /\ hx = NoHashing
    /\ pl = NoPipeline
    /\ fa = NoArticles
    /\ RunsUnused

\* No upsert was made yet.
NoUpsert ==
    [n |-> 0, op |-> "idle", rec |-> Cleaned("k1", "a", 0), before |-> <<>>, logged |-> 0]

\* The fetch layer is not part of the other specifications.
FetchUnused ==
    /\ br = NewBreakers
    /\ fs = FetchIdle

\* The store is not part of the other specifications.
StoreUnused ==
    /\ store = EmptyTable
    /\ changes = <<>>
    /\ up = NoUpsert
    /\ bt = NoBatch

\* ------------------------------------------------------------ the steps

\* The retry wrapper is not part of the breaker's specification.
RetryUnused ==
    /\ policy = [max_attempts |-> 3, backoff_factor |-> 2, jitter |-> TRUE,
                 initial_delay |-> 4, max_delay |-> 40,
                 exceptions |-> ErrKinds, reraise_exceptions |-> {}]
    /\ rt = RetryIdle(policy)

BreakerInit ==
    /\ \E k \in 1..MaxThreshold, d \in 1..MaxTimeout : cb = NewBreaker(k, d)
    /\ now = 0
    /\ pc = [c \in Callers |-> "idle"]
    /\ result = [c \in Callers |-> "none"]
    /\ snap = [c \in Callers |-> [b |-> cb, ver |-> 0]]
    /\ probe = [c \in Callers |-> FALSE]
    /\ ver = 0
    /\ fails = 0
    /\ probing = FALSE
    /\ calls = 0
    /\ invocations = 0
    /\ last = [op |-> "init", who |-> "none"]

Init == BreakerInit /\ RetryUnused /\ FetchUnused /\ StoreUnused /\ AuxUnused

\* time.time() advances.
Tick ==
    /\ now < MaxTime
    /\ now' = now + 1
    /\ last' = [op |-> "tick", who |-> "none"]
    /\ UNCHANGED <<cb, pc, result, snap, probe, ver, fails, probing, calls, invocations>>
    /\ UNCHANGED <<retryVars, fetchVars, storeVars, auxVars>>

\* A task calls the wrapped function: the entry of async_wrapper.
Call(c) ==
    /\ pc[c] = "idle"
    /\ calls < MaxCalls
    /\ calls' = calls + 1
    /\ LET e == Enter(cb, now)
           v == IF e.b = cb THEN ver ELSE ver + 1
       IN  /\ cb' = e.b
           /\ ver' = v
           /\ IF e.admitted
              THEN /\ pc' = [pc EXCEPT ![c] = "running"]
                   /\ result' = [result EXCEPT ![c] = "none"]
                   /\ snap' = [snap EXCEPT ![c] = [b |-> e.b, ver |-> v]]
                   /\ probe' = [probe EXCEPT ![c] = e.reset]
                   /\ invocations' = invocations + 1
                   /\ last' = [op |-> "invoke", who |-> c]
              ELSE /\ result' = [result EXCEPT ![c] = "circuit_open"]
                   /\ probe' = [probe EXCEPT ![c] = FALSE]
                   /\ last' = [op |-> "reject", who |-> c]
                   /\ UNCHANGED <<pc, snap, invocations>>
           /\ fails' = IF e.reset THEN 0 ELSE fails
           /\ probing' = (probing \/ e.reset)
    /\ UNCHANGED now
    /\ UNCHANGED <<retryVars, fetchVars, storeVars, auxVars>>

\* The wrapped operation returns: _on_success, then the result is returned.
Succeed(c) ==
    /\ pc[c] = "running"
    /\ cb' = OnSuccess(cb)
    /\ ver' = IF cb' = cb THEN ver ELSE ver + 1
    /\ pc' = [pc EXCEPT ![c] = "idle"]
    /\ result' = [result EXCEPT ![c] = "ok"]
    /\ fails' = 0
    /\ probing' = FALSE
    /\ last' = [op |-> "succeed", who |-> c]
    /\ UNCHANGED <<now, snap, probe, calls, invocations>>
    /\ UNCHANGED <<retryVars, fetchVars, storeVars, auxVars>>

\* The wrapped operation raises an exception of the filter: _on_failure, re-raise.
Fail(c) ==
    /\ pc[c] = "running"
    /\ cb' = OnFailure(cb, now)
    /\ ver' = IF cb' = cb THEN ver ELSE ver + 1
    /\ pc' = [pc EXCEPT ![c] = "idle"]
    /\ result' = [result EXCEPT ![c] = "qualifying"]
    /\ fails' = fails + 1
    /\ last' = [op |-> "fail", who |-> c]
    /\ UNCHANGED <<now, snap, probe, probing, calls, invocations>>
    /\ UNCHANGED <<retryVars, fetchVars, storeVars, auxVars>>

\* The wrapped operation raises an exception outside the filter: it propagates.
FailOther(c) ==
    /\ pc[c] = "running"
    /\ cb' = OnOther(cb, now)
    /\ ver' = IF cb' = cb THEN ver ELSE ver + 1
    /\ pc' = [pc EXCEPT ![c] = "idle"]
    /\ result' = [result EXCEPT ![c] = "other"]
    /\ last' = [op |-> "other", who |-> c]
    /\ UNCHANGED <<now, snap, probe, fails, probing, calls, invocations>>
    /\ UNCHANGED <<retryVars, fetchVars, storeVars, auxVars>>

Next ==
    \/ Tick
    \/ \E c \in Callers : Call(c)
    \/ \E c \in Callers : Succeed(c)
    \/ \E c \in Callers : Fail(c)
    \/ \E c \in Callers : FailOther(c)

Spec == Init /\ [][Next]_vars

\* ------------------------------------------- one execution of with_retry

\* The breaker is not part of the retry wrapper's specification.
BreakerUnused ==
    /\ cb = NewBreaker(1, 1)
    /\ now = 0
    /\ pc = [c \in Callers |-> "idle"]
    /\ result = [c \in Callers |-> "none"]
    /\ snap = [c \in Callers |-> [b |-> cb, ver |-> 0]]
    /\ probe = [c \in Callers |-> FALSE]
    /\ ver = 0
    /\ fails = 0
    /\ probing = FALSE
    /\ calls = 0
    /\ invocations = 0
    /\ last = [op |-> "init", who |-> "none"]

RetryInit ==
    /\ BreakerUnused
    /\ AuxUnused
    /\ FetchUnused
    /\ StoreUnused
    /\ policy \in Policies
    /\ rt = RetryStart(policy)

\* `await func(...)` returns or raises.
RetryAttempt ==
    /\ rt.pc = "call"
    /\ \E e \in {"ok"} \cup ErrKinds, q \in JitterQuarters :
           rt' = RetryAfterCall(policy, rt, e, q)
    /\ UNCHANGED policy
    /\ UNCHANGED <<breakerVars, fetchVars, storeVars, auxVars>>

\* `await asyncio.sleep(actual_delay)` returns.
RetryWake ==
    /\ rt.pc = "sleep"
    /\ rt' = RetryAfterSleep(policy, rt)
    /\ UNCHANGED policy
    /\ UNCHANGED <<breakerVars, fetchVars, storeVars, auxVars>>

RetryNext == RetryAttempt \/ RetryWake

SpecRetry == RetryInit /\ [][RetryNext]_vars

\* ------------------------------------------ calls of scrape_with_fallback

FetchInit ==
    /\ BreakerUnused
    /\ AuxUnused
    /\ RetryUnused
    /\ br \in PriorBreakers
    /\ fs = FetchIdle
    /\ StoreUnused

\* scrape_with_fallback(url, use_playwright) is called.
FetchStart(use_playwright) ==
    /\ fs.pc = "idle"
    /\ LET t == IF use_playwright THEN "playwright" ELSE "requests" IN
       /\ fs' = FetchBegin(t, br)
       /\ policy' = FetchPolicy(t)
       /\ rt' = RetryStart(FetchPolicy(t))
    /\ UNCHANGED <<br, now, callerVars, storeVars, auxVars>>

\* The retry wrapper calls the fetch method's body, which calls _fetch through
\* the transport's breaker: the transport is invoked, or the breaker raises.
FetchAttempt ==
    /\ fs.pc = "attempt"
    /\ \E q \in FetchJitterQuarters :
        LET t == fs.cur
            e == Enter(br[t], now)
            f1 == [fs EXCEPT !.att[t] = @ + 1]
        IN  /\ br' = WithBreaker(br, t, e.b)
            /\ IF e.admitted
               THEN /\ fs' = [f1 EXCEPT !.pc = "inflight", !.inv[t] = @ + 1,
                                        !.br1[t] = IF fs.inv[t] = 0 THEN e.b ELSE @]
                    /\ UNCHANGED <<rt, policy>>
               ELSE LET f2 == [f1 EXCEPT !.first[t] = IF @ = "none" THEN "circuit_open" ELSE @]
                        a == AfterRetry(f2, RetryAfterCall(policy, rt, "circuit_open", q), policy)
                    IN  /\ fs' = a.fs
                        /\ rt' = a.rt
                        /\ policy' = a.policy
    /\ UNCHANGED <<now, callerVars, storeVars, auxVars>>

\* The transport returns the page or raises; a 429 response first sleeps for
\* Retry-After.  The breaker's wrapper and then the retry wrapper handle it.
FetchComplete ==
    /\ fs.pc = "inflight"
    /\ \E o \in TransportOutcomes(fs.cur), h \in Headers, q \in FetchJitterQuarters :
        LET t == fs.cur
            b == IF o = "ok" THEN OnSuccess(br[t])
                 ELSE IF o \in BreakerFilter(t) THEN OnFailure(br[t], now)
                 ELSE OnOther(br[t], now)
            f1 == [fs EXCEPT !.first[t] = IF @ = "none" THEN o ELSE @,
                             !.outs[t] = @ \cup {o},
                             !.mandated = IF o = "rate_limit"
                                          THEN Append(@, [header |-> h, slept |-> MandatedSleep(h)])
                                          ELSE @]
            a == AfterRetry(f1, RetryAfterCall(policy, rt, o, q), policy)
        IN  /\ br' = WithBreaker(br, t, b)
            /\ fs' = a.fs
            /\ rt' = a.rt
            /\ policy' = a.policy
    /\ UNCHANGED <<now, callerVars, storeVars, auxVars>>

\* The retry wrapper's backoff sleep ends.
FetchWake ==
    /\ fs.pc = "sleep"
    /\ LET a == AfterRetry(fs, RetryAfterSleep(policy, rt), policy) IN
       /\ fs' = a.fs
       /\ rt' = a.rt
       /\ policy' = a.policy
    /\ UNCHANGED <<br, now, callerVars, storeVars, auxVars>>

\* _parse_page(soup, url) returns the records or raises.
FetchParse ==
    /\ fs.pc = "parse"
    /\ \E ok \in BOOLEAN :
        IF ok
        THEN /\ fs' = [fs EXCEPT !.pc = "done",
                                 !.out = [kind |-> "ok", via |-> fs.cur, msg |-> <<>>]]
             /\ UNCHANGED <<rt, policy>>
        ELSE LET a == Failed(fs, "parse_error", rt, policy) IN
             /\ fs' = a.fs
             /\ rt' = a.rt
             /\ policy' = a.policy
    /\ UNCHANGED <<br, now, callerVars, storeVars, auxVars>>

\* time.time() advances.
FetchTick ==
    /\ now < MaxFetchTime
    /\ now' = now + 1
    /\ UNCHANGED <<callerVars, retryVars, fetchVars, storeVars, auxVars>>

FetchNext ==
    \/ \E use_playwright \in BOOLEAN : FetchStart(use_playwright)
    \/ FetchAttempt
    \/ FetchComplete
    \/ FetchWake
    \/ FetchParse
    \/ FetchTick

SpecFetch == FetchInit /\ [][FetchNext]_vars

\* ------------------------------------------------- upserts into the store

StoreInit ==
    /\ BreakerUnused
    /\ AuxUnused
    /\ RetryUnused
    /\ FetchUnused
    /\ StoreUnused

\* One call of the upsert with a cleaned record.  The client's database calls
\* are synchronous, so the call does not interleave with another one.
DoUpsert ==
    /\ up.n < MaxUpserts
    /\ \E k \in Keys, content \in Contents, scraped_at \in 0..now,
          fault \in Faults, default \in {None, now} :
        LET rec == Cleaned(k, content, scraped_at)
            u == Upsert(store, changes, rec, now, fault, default)
        IN  /\ store' = u.store
            /\ changes' = u.changes
            /\ up' = [n |-> up.n + 1, op |-> u.op, rec |-> rec, before |-> store[k],
                      logged |-> Len(u.changes) - Len(changes)]
    /\ UNCHANGED <<bt, now, callerVars, retryVars, fetchVars, auxVars>>

\* datetime.now() advances.
StoreTick ==
    /\ now < MaxStoreTime
    /\ now' = now + 1
    /\ UNCHANGED <<callerVars, retryVars, fetchVars, storeVars, auxVars>>

StoreNext ==
    \/ DoUpsert
    \/ StoreTick

SpecStore == StoreInit /\ [][StoreNext]_vars

\* -------------------------------------------------- one batch of upserts

BatchInit ==
    /\ BreakerUnused
    /\ AuxUnused
    /\ RetryUnused
    /\ FetchUnused
    /\ store \in PriorStores
    /\ changes = <<>>
    /\ up = NoUpsert
    /\ \E records \in Batches : bt = NewBatch(records)

\* The event loop runs the coroutine of record i until it suspends or ends.
TaskRun(i) ==
    /\ i \in 1..Len(bt.batch)
    /\ ~bt.finished
    /\ bt.task[i].pc \in {"ready", "selected"}
    /\ \E fault \in Faults, default \in {None, now} :
        LET rec == bt.batch[i]
            tk == bt.task[i]
        IN
        IF tk.pc = "ready" /\ UpsertSuspends /\ fault # "select_raises"
        THEN /\ bt' = [bt EXCEPT !.task[i].pc = "selected",
                                 !.task[i].existing = store[rec.name]]
             /\ UNCHANGED <<store, changes>>
        ELSE LET existing == IF tk.pc = "ready" THEN store[rec.name] ELSE tk.existing
                 u == UpsertFound(store, changes, rec, existing, now, fault, default)
                 wrote == u.op \in {"inserted", "updated"}
             IN  /\ store' = u.store
                 /\ changes' = u.changes
                 /\ bt' = [bt EXCEPT
                        !.committed = IF wrote THEN @ + 1 ELSE @,
                        !.task[i] = [pc |-> "done", op |-> u.op, fault |-> fault,
                                     existing |-> existing,
                                     wbefore |-> store[rec.name],
                                     after |-> u.store[rec.name],
                                     logged |-> Len(u.changes) - Len(changes),
                                     ord |-> IF wrote THEN bt.committed + 1 ELSE 0]]
    /\ UNCHANGED <<up, now, callerVars, retryVars, fetchVars, auxVars>>

\* asyncio.gather(*tasks, return_exceptions=True) returns and the results are
\* counted.
BatchFinish ==
    /\ ~bt.finished
    /\ \A i \in 1..Len(bt.batch) : bt.task[i].pc = "done"
    /\ bt' = [bt EXCEPT !.finished = TRUE,
                        !.success_count = CountSuccesses(bt.task, Len(bt.batch))]
    /\ UNCHANGED <<store, changes, up, now, callerVars, retryVars, fetchVars, auxVars>>

BatchNext ==
    \/ \E i \in 1..MaxBatch : TaskRun(i)
    \/ BatchFinish

SpecBatch == BatchInit /\ [][BatchNext]_vars

\* ------------------------------------------------------- upserts of deals

\* One iteration of upsert_fortune_deals' loop over the cleaned deals.
DoDealUpsert ==
    /\ up.n < MaxUpserts
    /\ \E k \in Keys, content \in Contents, extracted_at \in 0..now,
          fault \in DealFaults, default \in {None, now} :
        LET deal == Cleaned(k, content, extracted_at)
            u == DealUpsert(store, changes, deal, now, fault, default)
        IN  /\ store' = u.store
            /\ changes' = u.changes
            /\ up' = [n |-> up.n + 1, op |-> u.op, rec |-> deal, before |-> store[k],
                      logged |-> Len(u.changes) - Len(changes)]
    /\ UNCHANGED <<bt, now, callerVars, retryVars, fetchVars, auxVars>>

DealNext ==
    \/ DoDealUpsert
    \/ StoreTick

SpecDeals == StoreInit /\ [][DealNext]_vars

\* ------------------------------------------------- hashing of two records

HashInit ==
    /\ BreakerUnused
    /\ RetryUnused
    /\ FetchUnused
    /\ StoreUnused
    /\ \E r1 \in Dicts, r2 \in Dicts :
        hx = [NoHashing EXCEPT !.r1 = r1, !.r2 = r2]
    /\ pl = NoPipeline
    /\ fa = NoArticles
    /\ RunsUnused

\* calculate_content_hash is called on both records.
HashBoth ==
    /\ ~hx.done
    /\ hx' = [hx EXCEPT !.h1 = CalculateContentHash(hx.r1),
                        !.h2 = CalculateContentHash(hx.r2),
                        !.done = TRUE]
    /\ UNCHANGED <<pl, fa, runVars, now, callerVars, retryVars, fetchVars, storeVars>>

HashNext == HashBoth

SpecHash == HashInit /\ [][HashNext]_vars

\* ------------------------------------------------- one run of the pipeline

PipelineInit ==
    /\ BreakerUnused
    /\ RetryUnused
    /\ FetchUnused
    /\ StoreUnused
    /\ AuxUnused

\* run_full_scraping_pipeline(config) is called and starts the first stage.
PipelineStart ==
    /\ pl.pc = "idle"
    /\ pl' = [pl EXCEPT !.pc = "stage"]
    /\ UNCHANGED <<hx, fa, runVars, now, callerVars, retryVars, fetchVars, storeVars>>

\* The stage the pipeline is waiting for ends.
StageEnds ==
    /\ pl.pc = "stage"
    /\ \E o \in StageOutcomes : pl' = AfterStage(pl, o)
    /\ UNCHANGED <<hx, fa, runVars, now, callerVars, retryVars, fetchVars, storeVars>>

PipelineNext ==
    \/ PipelineStart
    \/ StageEnds

SpecPipeline == PipelineInit /\ [][PipelineNext]_vars

\* -------------------------------------------- runs of the article scraper

ArticlesInit ==
    /\ BreakerUnused
    /\ RetryUnused
    /\ FetchUnused
    /\ StoreUnused
    /\ AuxUnused

\* A run of scrape_fortune_articles starts.
ArticlesStart ==
    /\ fa.pc \in {"idle", "returned"}
    /\ fa.run < MaxRuns
    /\ fa' = ArticlesBegin(fa)
    /\ UNCHANGED <<hx, pl, runVars, now, callerVars, retryVars, fetchVars, storeVars>>

\* The await of extract_deals_from_article ends.  After an article that is not
\* the last one the loop goes on to the next; after the last one the deals
\* are saved and the processed URLs written before the function returns.
ArticleEnds ==
    /\ fa.pc = "extracting"
    /\ \E outcome \in ArticleOutcomes :
        LET f1 == AfterArticle(fa, outcome) IN
        IF fa.i < Len(fa.new_urls)
        THEN fa' = [f1 EXCEPT !.i = @ + 1]
        ELSE \E stored \in SUBSET f1.all_deals : fa' = SaveAndReturn(f1, stored)
    /\ UNCHANGED <<hx, pl, runVars, now, callerVars, retryVars, fetchVars, storeVars>>

ArticlesNext ==
    \/ ArticlesStart
    \/ ArticleEnds

SpecArticles == ArticlesInit /\ [][ArticlesNext]_vars

\* ------------------------------------------------- one run over the sites

SitesInit ==
    /\ BreakerUnused
    /\ RetryUnused
    /\ FetchUnused
    /\ StoreUnused
    /\ AuxUnused

\* scrape_all_sites(config) is called and calls scrape_portfolio for the first site.
SitesStart ==
    /\ ss.pc = "idle"
    /\ ss' = [ss EXCEPT !.pc = "setup", !.i = 1]
    /\ UNCHANGED <<hx, pl, fa, mg, sq, now, callerVars, retryVars, fetchVars, storeVars>>

\* scrape_portfolio constructs and starts a new PortfolioScraper and looks the
\* site up in the database; a failure there ends in its except clause.
SiteSetup ==
    /\ ss.pc = "setup"
    /\ \E ok \in BOOLEAN :
        IF ok
        THEN ss' = [ss EXCEPT !.pc = "attempt", !.setup[ss.i] = "ok",
                              !.rt = RetryStart(PagePolicy)]
        ELSE ss' = SiteResult([ss EXCEPT !.setup[ss.i] = "failed"], "error")
    /\ UNCHANGED <<hx, pl, fa, mg, sq, now, callerVars, retryVars, fetchVars, storeVars>>

\* The retry wrapper of scrape_portfolio_page calls scrape through the breaker
\* of the class: the breaker raises, or scrape_with_fallback runs on the new
\* scraper and returns the companies or raises ScrapingError.
SiteAttempt ==
    /\ ss.pc = "attempt"
    /\ \E ok \in BOOLEAN, q \in FetchJitterQuarters :
        LET e == Enter(ss.cb, now) IN
        IF ~e.admitted
        THEN ss' = AfterPageRetry([ss EXCEPT !.cb = e.b, !.rejected[ss.i] = @ + 1],
                                  RetryAfterCall(PagePolicy, ss.rt, "circuit_open", q))
        ELSE LET s1 == [ss EXCEPT !.invoked[ss.i] = @ + 1] IN
             IF ok
             THEN ss' = AfterPageRetry([s1 EXCEPT !.cb = OnSuccess(e.b)],
                                       RetryAfterCall(PagePolicy, ss.rt, "ok", q))
             ELSE ss' = AfterPageRetry([s1 EXCEPT !.cb = OnFailure(e.b, now)],
                                       RetryAfterCall(PagePolicy, ss.rt, "ScrapingError", q))
    /\ UNCHANGED <<hx, pl, fa, mg, sq, now, callerVars, retryVars, fetchVars, storeVars>>

\* The backoff sleep of scrape_portfolio_page ends.
SiteWake ==
    /\ ss.pc = "sleep"
    /\ ss' = AfterPageRetry(ss, RetryAfterSleep(PagePolicy, ss.rt))
    /\ UNCHANGED <<hx, pl, fa, mg, sq, now, callerVars, retryVars, fetchVars, storeVars>>

\* The companies are cleaned and stored: scrape_portfolio returns "success",
\* or "error" when the database raises.
SitePersist ==
    /\ ss.pc = "persist"
    /\ \E ok \in BOOLEAN : ss' = SiteResult(ss, IF ok THEN "success" ELSE "error")
    /\ UNCHANGED <<hx, pl, fa, mg, sq, now, callerVars, retryVars, fetchVars, storeVars>>

\* time.time() advances.
SiteTick ==
    /\ now < MaxSiteTime
    /\ ss.pc # "done"
    /\ now' = now + 1
    /\ UNCHANGED <<callerVars, retryVars, fetchVars, storeVars, auxVars>>

SitesNext ==
    \/ SitesStart
    \/ SiteSetup
    \/ SiteAttempt
    \/ SiteWake
    \/ SitePersist
    \/ SiteTick

SpecSites == SitesInit /\ [][SitesNext]_vars

\* ---------------------------------------------------- runs of migrations

MigrationsInit ==
    /\ BreakerUnused
    /\ RetryUnused
    /\ FetchUnused
    /\ StoreUnused
    /\ AuxUnused

\* run_pending_migrations() is called.
MigrationsStart ==
    /\ mg.pc \in {"idle", "returned"}
    /\ mg.run < MaxMigrationRuns
    /\ \E read_ok \in BOOLEAN : mg' = MigrationsBegin(mg, read_ok)
    /\ UNCHANGED <<hx, pl, fa, ss, sq, now, callerVars, retryVars, fetchVars, storeVars>>

\* execute_migration returns for the pending file the loop is at.
MigrationEnds ==
    /\ mg.pc = "executing"
    /\ \E outcome \in MigrationOutcomes : mg' = ExecuteMigration(mg, outcome)
    /\ UNCHANGED <<hx, pl, fa, ss, sq, now, callerVars, retryVars, fetchVars, storeVars>>

MigrationsNext ==
    \/ MigrationsStart
    \/ MigrationEnds

SpecMigrations == MigrationsInit /\ [][MigrationsNext]_vars

\* ------------------------------------------- fetches one after the other

SeqInit ==
    /\ BreakerUnused
    /\ RetryUnused
    /\ FetchUnused
    /\ StoreUnused
    /\ AuxUnused

\* The next caller calls a fetch method of the scraper.
SeqStart(t) ==
    /\ sq.pc = "idle"
    /\ sq.fetches < MaxFetches
    /\ sq' = SeqBegin(sq, t)
    /\ UNCHANGED <<hx, pl, fa, ss, mg, now, callerVars, retryVars, fetchVars, storeVars>>

\* The retry wrapper makes an attempt.
SeqAttempt ==
    /\ sq.pc = "attempt"
    /\ \E o \in TransportOutcomes(sq.cur), q \in FetchJitterQuarters :
           sq' = SeqAttemptOf(sq, o, q, now)
    /\ UNCHANGED <<hx, pl, fa, ss, mg, now, callerVars, retryVars, fetchVars, storeVars>>

\* The retry wrapper's backoff sleep ends.
SeqWake ==
    /\ sq.pc = "sleep"
    /\ sq' = SeqAfterRetry(sq, RetryAfterSleep(FetchPolicy(sq.cur), sq.rt))
    /\ UNCHANGED <<hx, pl, fa, ss, mg, now, callerVars, retryVars, fetchVars, storeVars>>

\* time.time() advances.
SeqTick ==
    /\ now < MaxSeqTime
    /\ now' = now + 1
    /\ UNCHANGED <<callerVars, retryVars, fetchVars, storeVars, auxVars>>

SeqNext ==
    \/ \E t \in Transports : SeqStart(t)
    \/ SeqAttempt
    \/ SeqWake
    \/ SeqTick

SpecSeq == SeqInit /\ [][SeqNext]_vars

\* ------------------------------------------------- claims on the breaker

\* The cooldown of an OPEN breaker, as the claims state it.
CooldownRunning == cb.last_failure_time # None /\ now - cb.last_failure_time < cb.timeout
CooldownElapsed == cb.last_failure_time # None /\ now - cb.last_failure_time >= cb.timeout

\* C1: from a breaker that is CLOSED with failureCount = 0 (at construction or
\* after a success) and with no reset since, fewer than failureThreshold
\* qualifying failures leave the state CLOSED, and with the failureThreshold-th
\* failure the state is OPEN.
C1_ThresholdOpens ==
    ~probing =>
        /\ (fails < cb.failure_threshold => cb.state = "CLOSED")
        /\ (fails >= cb.failure_threshold => cb.state = "OPEN")

C1_Witness ==
    /\ ~probing
    /\ cb.failure_threshold >= 2
    /\ fails = cb.failure_threshold
    /\ last.op = "fail"
    /\ cb.state = "OPEN"

\* C2: a call on an OPEN breaker whose cooldown has not elapsed is rejected
\* with the circuit-open error, invokes nothing and leaves the breaker as it
\* was; a call on an OPEN breaker whose cooldown has elapsed moves it to
\* HALF_OPEN with failureCount = 0 and invokes the operation once.
C2_OpenCalls ==
    [][ (cb.state = "OPEN" /\ calls' = calls + 1) =>
          /\ CooldownRunning =>
                /\ last'.op = "reject"
                /\ result'[last'.who] = "circuit_open"
                /\ cb' = cb
                /\ pc' = pc
                /\ invocations' = invocations
          /\ CooldownElapsed =>
                /\ last'.op = "invoke"
                /\ cb'.state = "HALF_OPEN"
                /\ cb'.failure_count = 0
                /\ cb'.last_failure_time = cb.last_failure_time
                /\ pc'[last'.who] = "running"
                /\ invocations' = invocations + 1 ]_vars

\* One caller was rejected during the cooldown, the other made the probe after it.
C2_Witness ==
    \E c, d \in Callers :
        /\ result[c] = "circuit_open"
        /\ pc[d] = "running" /\ probe[d]
        /\ cb.state = "HALF_OPEN"
        /\ CooldownElapsed

\* C3: in every reachable state, whatever the interleaving of the callers,
\* state = OPEN implies failureCount >= failureThreshold.
C3_OpenImpliesThreshold ==
    cb.state = "OPEN" => cb.failure_count >= cb.failure_threshold

\* The breaker has just opened with another caller's operation still in flight.
C3_Witness ==
    /\ cb.state = "OPEN"
    /\ cb.failure_count >= cb.failure_threshold
    /\ cb.failure_threshold >= 2
    /\ last.op = "fail"
    /\ \E c \in Callers : pc[c] = "running"

\* C4: when the breaker is HALF_OPEN and the recovery probe fails with a
\* qualifying error, the breaker is OPEN again with lastFailureTime the time
\* of that failure.
C4_ProbeFailureReopens ==
    [][ (cb.state = "HALF_OPEN" /\ last'.op = "fail" /\ probe[last'.who]) =>
          (cb'.state = "OPEN" /\ cb'.last_failure_time = now) ]_vars

\* C5: right after a wrapped operation completed successfully the breaker is
\* CLOSED with failureCount = 0 and lastFailureTime cleared.
C5_SuccessResets ==
    last.op = "succeed" =>
        /\ cb.state = "CLOSED"
        /\ cb.failure_count = 0
        /\ cb.last_failure_time = None
        /\ result[last.who] = "ok"

\* A success of a probe: the operation was invoked with the breaker HALF_OPEN.
C5_Witness ==
    /\ last.op = "succeed"
    /\ snap[last.who].b.state = "HALF_OPEN"
    /\ snap[last.who].b.last_failure_time # None
    /\ cb.state = "CLOSED"

\* C6: an error outside the filter propagates to the caller and the step
\* writes no field of the breaker; when no other caller wrote the breaker
\* since the operation was invoked, the breaker is exactly as it was then.
C6_OtherErrorFrame ==
    [][ last'.op = "other" =>
          /\ cb' = cb
          /\ result'[last'.who] = "other"
          /\ pc'[last'.who] = "idle"
          /\ (ver = snap[last'.who].ver => cb' = snap[last'.who].b) ]_vars

\* An error outside the filter on a breaker that had already counted a failure.
C6_Witness ==
    /\ last.op = "other"
    /\ result[last.who] = "other"
    /\ ver = snap[last.who].ver
    /\ cb.failure_count >= 1
    /\ cb.state # "OPEN"

\* C7: while a recovery probe is in flight (state HALF_OPEN) no other
\* caller's operation is invoked.
C7_SingleProbe ==
    [][ (cb.state = "HALF_OPEN" /\ \E p \in Callers : pc[p] = "running" /\ probe[p])
          => invocations' = invocations ]_vars

\* C8: failureCount equals the number of qualifying failures since the last
\* success or reset, whatever the interleaving of the callers.
C8_NoUndercount ==
    cb.failure_count = fails

\* Two operations invoked with no write of the breaker between them (so both
\* were in flight together) have both failed.
C8_Witness ==
    /\ \A c \in Callers : result[c] = "qualifying" /\ pc[c] = "idle"
    /\ \A c, d \in Callers : snap[c].ver = snap[d].ver
    /\ last.op = "fail"
    /\ fails >= 2
    /\ cb.failure_count - snap[last.who].b.failure_count = 2

\* C9: in every reachable state failureCount <= failureThreshold.
C9_NoOvershoot ==
    cb.failure_count <= cb.failure_threshold

\* --------------------------------------------- claims on the retry wrapper

RetryDone == rt.pc \in {"returned", "raised"}

\* C10: one execution of the retry wrapper invokes the operation at most
\* maxAttempts times and sleeps at most maxAttempts - 1 times, does not sleep
\* after the final attempt, and every sleep is <= maxDelay.
C10_RetryBounds ==
    /\ rt.invoked <= policy.max_attempts
    /\ Len(rt.sleeps) <= policy.max_attempts - 1
    /\ \A i \in 1..Len(rt.sleeps) : rt.sleeps[i] <= policy.max_delay
    /\ (rt.pc = "sleep" => rt.invoked < policy.max_attempts)
    /\ (RetryDone => Len(rt.sleeps) = rt.invoked - 1)

\* Every attempt failed with a retryable error, and a sleep was capped.
C10_Witness ==
    /\ rt.pc = "raised" /\ rt.raised = "RetryError"
    /\ policy.max_attempts >= 3
    /\ rt.invoked = policy.max_attempts
    /\ Len(rt.sleeps) = policy.max_attempts - 1
    /\ \E i \in 1..Len(rt.sleeps) : rt.sleeps[i] = policy.max_delay
    /\ \E i \in 1..Len(rt.sleeps) : rt.sleeps[i] < policy.max_delay

\* The error classes of a policy, as the claims name them.
IsFatal(p, e) == p.reraise_exceptions # {} /\ e \in p.reraise_exceptions
IsRetryable(p, e) == e \in p.exceptions
StopsRetry(p, e) == e # "none" /\ (IsFatal(p, e) \/ ~IsRetryable(p, e))

\* C11: an error of the fatal classes, or outside the retryable classes, is
\* re-raised as it is on the attempt where it occurs, with no sleep after it
\* and no further invocation; an error of both classes counts as fatal.
C11_FatalNotRetried ==
    StopsRetry(policy, rt.last_exception) =>
        /\ rt.pc = "raised"
        /\ rt.raised = rt.last_exception
        /\ rt.invoked = rt.attempt + 1
        /\ Len(rt.sleeps) = rt.invoked - 1

\* An error of both classes on the second attempt.
C11_Witness ==
    /\ rt.pc = "raised"
    /\ rt.raised = "both"
    /\ IsFatal(policy, "both") /\ IsRetryable(policy, "both")
    /\ rt.invoked = 2
    /\ Len(rt.sleeps) = 1

\* C12: when the wrapper ends on a retryable error it has made exactly
\* maxAttempts invocations and maxAttempts - 1 sleeps and raises RetryError
\* with that last error as its cause; when attempt i succeeds the wrapper
\* returns after exactly i invocations.
C12_ExhaustedOrReturned ==
    /\ (rt.pc = "raised" /\ ~StopsRetry(policy, rt.last_exception)) =>
            /\ rt.raised = "RetryError"
            /\ rt.cause = rt.last_exception
            /\ rt.invoked = policy.max_attempts
            /\ Len(rt.sleeps) = policy.max_attempts - 1
    /\ rt.raised = "RetryError" =>
            /\ rt.pc = "raised"
            /\ rt.cause # "none"
            /\ ~StopsRetry(policy, rt.cause)
    /\ rt.pc = "returned" =>
            /\ rt.raised = "none"
            /\ rt.invoked = rt.attempt + 1
            /\ rt.invoked <= policy.max_attempts
            /\ Len(rt.sleeps) = rt.invoked - 1

\* Three retryable failures of a policy of three attempts.
C12_Witness ==
    /\ rt.pc = "raised" /\ rt.raised = "RetryError"
    /\ rt.cause = "transient"
    /\ policy.max_attempts = 3
    /\ rt.invoked = 3

\* ------------------------------------------ claims on scrape_with_fallback

\* The call of scrape_with_fallback has ended.
FetchDone == fs.pc = "done"

\* C17: one call of scrape_with_fallback never invokes the transports more
\* than maxAttempts(primary) + maxAttempts(fallback) = 3 + 3 times in total,
\* whatever the invocations' outcomes and the breakers' states.
C17_InvocationBound ==
    fs.inv["requests"] + fs.inv["playwright"] <= FetchMaxAttempts + FetchMaxAttempts

C17_Witness ==
    /\ FetchDone
    /\ fs.out.kind = "ScrapingError"
    /\ fs.inv["requests"] = FetchMaxAttempts
    /\ fs.inv["playwright"] = FetchMaxAttempts

\* The first attempt of the call through transport t was the breaker's
\* rejection: the breaker was OPEN and its cooldown had not elapsed.
RejectedFirst(t) == fs.first[t] = "circuit_open"

\* C13: circuit-open errors are not retried.  For each transport, a fetch
\* that finds the transport's breaker OPEN within its cooldown makes exactly
\* one attempt, no retry sleep and no transport invocation, and a primary so
\* rejected is followed at once by the fetch through the other transport.
C13_CircuitOpenNotRetried ==
    \A t \in Transports :
        RejectedFirst(t) =>
            /\ fs.att[t] = 1
            /\ fs.slept[t] = 0
            /\ fs.inv[t] = 0
            /\ (t = fs.primary => fs.stage = "fallback" /\ fs.cur = OtherTransport(t))

\* C14: an HTTP 429 response is a retryable error on the lightweight
\* transport.  When the primary aiohttp fetch receives 429 on attempt 1, the
\* call stays with that transport: it has slept Retry-After, it waits for
\* attempt 2 in the retry wrapper's sleep, and the fallback transport is not
\* invoked (so a success on attempt 2 ends the fetch with two attempts).
C14_RateLimitRetried ==
    (/\ fs.primary = "requests"
     /\ fs.first["requests"] = "rate_limit"
     /\ fs.att["requests"] = 1)
    => /\ fs.stage = "primary"
       /\ fs.pc = "sleep"
       /\ Len(fs.mandated) = 1
       /\ fs.att["playwright"] = 0

\* The call has ended, every invocation of the primary transport failed with
\* a retryable (transient) error, every invocation of the fallback transport
\* succeeded, and _parse_page did not raise.
PrimaryFailsFallbackSucceeds ==
    /\ FetchDone
    /\ fs.outs[fs.primary] \subseteq {"transient"}
    /\ fs.outs[OtherTransport(fs.primary)] \subseteq {"ok"}
    /\ fs.perr # "parse_error"
    /\ fs.ferr # "parse_error"

\* The result is the fallback's, after one full attempt sequence of the
\* primary and one invocation of the fallback.
OneSequenceEach ==
    /\ fs.out.kind = "ok"
    /\ fs.out.via = OtherTransport(fs.primary)
    /\ fs.inv[fs.primary] = FetchMaxAttempts
    /\ fs.inv[OtherTransport(fs.primary)] = 1

\* C15, as stated: with a primary that always fails with a retryable error
\* and a fallback that always succeeds, both breakers CLOSED when the call
\* starts, the call returns the fallback's result, the primary was invoked
\* maxAttempts times and the fallback once.
C15_FallbackAfterPrimary ==
    (/\ PrimaryFailsFallbackSucceeds
     /\ \A t \in Transports : fs.br0[t].state = "CLOSED")
    => OneSequenceEach

\* C15, amended: the same, for breakers that are CLOSED with failure_count 0
\* when the call starts.
C15_FallbackAfterPrimaryFresh ==
    (/\ PrimaryFailsFallbackSucceeds
     /\ \A t \in Transports : fs.br0[t].state = "CLOSED" /\ fs.br0[t].failure_count = 0)
    => OneSequenceEach

C15_Witness ==
    /\ PrimaryFailsFallbackSucceeds
    /\ fs.br0 = NewBreakers
    /\ fs.primary = "playwright"
    /\ fs.inv["playwright"] = FetchMaxAttempts
    /\ br["playwright"].state = "OPEN"
    /\ fs.out = [kind |-> "ok", via |-> "requests", msg |-> <<>>]

\* C16: when both the primary and the fallback fail, scrape_with_fallback
\* raises one typed failure that identifies the url and carries both the
\* primary's error and the fallback's error.
C16_FailureCarriesBoth ==
    (/\ FetchDone
     /\ fs.perr \notin {"none", "parse_error"}
     /\ fs.ferr \notin {"none", "parse_error"})
    => /\ fs.out.kind = "ScrapingError"
       /\ fs.out.msg = <<"url", fs.perr, fs.ferr>>

\* C18: a validation error raised inside a transport call is never retried
\* and never changes a breaker.  For each transport whose first invocation
\* raised one: the transport is invoked exactly once, there is no retry
\* sleep, and the transport's breaker has the failure_count and the state it
\* had when the transport was invoked.
C18_ValidationNotRetried ==
    \A t \in Transports :
        fs.first[t] = "validation" =>
            /\ fs.inv[t] = 1
            /\ fs.att[t] = 1
            /\ fs.slept[t] = 0
            /\ br[t].failure_count = fs.br1[t].failure_count
            /\ br[t].state = fs.br1[t].state

\* ------------------------------------------------------ claims on the store

\* The last upsert found a stored record for its natural key.
FoundExisting == up.before # <<>>

\* C19: a change record is appended only by an upsert that finds a stored
\* record whose content_hash differs from the record's: a first upsert of a
\* key inserts and appends none, an upsert with an equal hash appends none,
\* and every change record has previous_hash # new_hash.
C19_ChangeOnlyOnNewHash ==
    /\ up.logged \in {0, 1}
    /\ up.logged = 1 =>
        /\ up.op = "updated"
        /\ FoundExisting
        /\ up.before[1].content_hash # up.rec.content_hash
    /\ (up.op = "inserted") =>
        /\ ~FoundExisting
        /\ up.logged = 0
        /\ store[up.rec.name] # <<>>
        /\ store[up.rec.name][1].content_hash = up.rec.content_hash
    /\ (FoundExisting /\ up.before[1].content_hash = up.rec.content_hash) => up.logged = 0
    /\ \A i \in 1..Len(changes) : changes[i].previous_hash # changes[i].new_hash

C19_Witness ==
    /\ up.op = "updated"
    /\ up.logged = 1
    /\ Len(changes) = 1
    /\ changes[1].previous_hash = ContentHash("a", 0)
    /\ changes[1].new_hash = ContentHash("a", 1)

\* C20: when the upsert finds a stored record whose content_hash equals the
\* record's, the only stored field that changes is last_seen_at: updated_at,
\* content_hash and the content fields stay as they were, and no change
\* record is written.
C20_EqualHashTouchesLastSeenOnly ==
    (/\ up.op = "updated"
     /\ FoundExisting
     /\ up.before[1].content_hash = up.rec.content_hash)
    => /\ up.logged = 0
       /\ store[up.rec.name] # <<>>
       /\ \A f \in RowFields \ {"last_seen_at"} :
            store[up.rec.name][1][f] = up.before[1][f]

\* The last upsert was an update that changed the stored content_hash.
HashChanged ==
    /\ up.op = "updated"
    /\ FoundExisting
    /\ store[up.rec.name] # <<>>
    /\ store[up.rec.name][1].content_hash # up.before[1].content_hash

\* C21: every upsert that changes a stored record's content_hash from h_old
\* to h_new appends exactly one change record for that entity, with
\* previous_hash = h_old, new_hash = h_new and exactly the fields that differ
\* -- also when the write to the change log fails.
C21_HashChangeLogged ==
    HashChanged =>
        /\ up.logged = 1
        /\ changes # <<>>
        /\ LET c == changes[Len(changes)] IN
            /\ c.key = up.rec.name
            /\ c.previous_hash = up.before[1].content_hash
            /\ c.new_hash = store[up.rec.name][1].content_hash
            /\ c.fields = Diff(up.before[1], store[up.rec.name][1])

\* ------------------------------------------------ claims on batch upserts

\* The batch call has returned.
BatchDone == bt.finished

\* The tasks of the batch.
Tasks == 1..Len(bt.batch)

\* No call to the database failed in the batch.
NoFault == \A i \in Tasks : bt.task[i].fault = "none"

\* The batch is the same cleaned record twice, upserted with no database
\* fault.
SameRecordTwice ==
    /\ BatchDone
    /\ Len(bt.batch) = 2
    /\ bt.batch[1] = bt.batch[2]
    /\ NoFault

\* The content of a stored row.
ContentOf(row) == <<row.content, row.scraped_at, row.content_hash>>

Succeeded == {i \in Tasks : bt.task[i].op \in {"inserted", "updated"}}

\* C23: a batch upsert attempts the upsert of every record once, also when
\* upserts of other records fail; its result is the number of records whose
\* upsert succeeded (inserts, changed and unchanged updates), those records
\* are persisted and the failed ones are not counted.
C23_BatchCountsSuccesses ==
    BatchDone =>
        /\ \A i \in Tasks : bt.task[i].pc = "done" /\ bt.task[i].op # "idle"
        /\ bt.success_count = Cardinality(Succeeded)
        /\ \A i \in Succeeded :
            /\ bt.task[i].after # <<>>
            /\ bt.task[i].after[1].content_hash = bt.batch[i].content_hash
            /\ store[bt.batch[i].name] # <<>>
        /\ \A i \in Tasks \ Succeeded : bt.task[i].after = bt.task[i].wbefore

C23_Witness ==
    /\ BatchDone
    /\ Len(bt.batch) = 2
    /\ bt.task[1].op = "raised"
    /\ bt.task[2].op = "inserted"
    /\ bt.task[2].ord = 1
    /\ bt.success_count = 1
    /\ store[bt.batch[1].name] = <<>>

\* The batch has ended with no database fault and its two records share
\* their natural key.
SharedKeyBatch ==
    /\ BatchDone
    /\ NoFault
    /\ Len(bt.batch) = 2
    /\ bt.batch[1].name = bt.batch[2].name

C25_DealUpsertSameProtocol ==
    LET k == up.rec.name IN
    /\ (up.op = "updated" /\ FoundExisting
            /\ up.before[1].content_hash # up.rec.content_hash)
        => /\ up.logged = 1
           /\ changes[Len(changes)].previous_hash = up.before[1].content_hash
           /\ changes[Len(changes)].new_hash = up.rec.content_hash
    /\ (up.op = "updated" /\ FoundExisting
            /\ up.before[1].content_hash = up.rec.content_hash)
        => /\ up.logged = 0
           /\ store[k][1].last_seen_at = now
    /\ (up.op = "inserted")
        => /\ store[k][1].first_seen_at = now
           /\ store[k][1].last_seen_at = now

\* ----------------------------------------------- claims on the content hash

\* C26: the content hash is independent of field insertion order.  Two
\* records that hold the same (field, value) pairs, inserted in any orders,
\* have the same hash.
C26_HashOrderIndependent ==
    (hx.done /\ ItemSet(hx.r1) = ItemSet(hx.r2)) => hx.h1 = hx.h2

C26_Witness ==
    /\ hx.done
    /\ hx.r1 = << <<"sector", "x">>, <<"name", "y">> >>
    /\ hx.r2 = << <<"name", "y">>, <<"sector", "x">> >>
    /\ hx.h1 = hx.h2

\* C27: the content hash of a cleaned record does not depend on volatile
\* metadata.  A record cleaned again from unchanged content at another scrape
\* time has the hash of the stored one, and its upsert writes no change
\* record.
C27_HashIgnoresScrapeTime ==
    (/\ up.op = "updated"
     /\ FoundExisting
     /\ up.before[1].content = up.rec.content)
    => /\ up.rec.content_hash = up.before[1].content_hash
       /\ up.logged = 0

\* ------------------------------------------------- claims on the pipeline

\* C28: the pipeline attempts its four stages in the order portfolios, VC
\* teams, portfolio-company teams, Fortune deals; a stage that fails, by
\* returning a failure status or by raising, does not prevent the later
\* stages; the result reports a status for every stage.
C28_AllStagesRun ==
    /\ \A i \in 1..Len(pl.ran) : pl.ran[i] = StageOrder[i]
    /\ pl.pc = "done" =>
        /\ pl.ran = StageOrder
        /\ \A i \in 1..Len(StageOrder) : pl.steps[StageOrder[i]].status # "absent"

\* -------------------------------------------- claims on the article scraper

\* C29: delivery of deals is at-least-once.  An article URL is in the
\* processed-URL set only if the article was fetched successfully and every
\* deal extracted from it was persisted; an article whose fetch failed is
\* never recorded as processed.
C29_ProcessedOnlyIfPersisted ==
    \A u \in fa.processed :
        /\ fa.fetched[u] = "ok"
        /\ fa.extracted[u] \subseteq fa.persisted

\* --------------------------------------------- the breaker's way back

\* C30: a breaker resumes only through a probe.  The state never changes from
\* OPEN directly to CLOSED: every change to CLOSED is made from HALF_OPEN by
\* the success of an operation that was invoked after the cooldown elapsed
\* (with the breaker HALF_OPEN), also when callers were in flight as the
\* breaker opened.
C30_ResumeOnlyThroughProbe ==
    [][ (cb.state # "CLOSED" /\ cb'.state = "CLOSED") =>
          /\ cb.state = "HALF_OPEN"
          /\ last'.op = "succeed"
          /\ snap[last'.who].b.state = "HALF_OPEN" ]_vars

\* ------------------------------------------------ claims on the backoff

RECURSIVE Pow(_, _)
Pow(b, n) == IF n = 0 THEN 1 ELSE b * Pow(b, n - 1)

\* C31: with jitter disabled, the sleep before attempt n+1 is
\* min(initialDelay * backoffFactor^(n-1), maxDelay); the base delay itself is
\* never capped and keeps growing by backoffFactor; and for
\* backoffFactor >= 1 the sleeps are non-decreasing.
C31_BackoffSchedule ==
    ~policy.jitter =>
        /\ \A n \in 1..Len(rt.sleeps) :
               rt.sleeps[n] = Min(policy.initial_delay * Pow(policy.backoff_factor, n - 1),
                                  policy.max_delay)
        /\ rt.delay = policy.initial_delay * Pow(policy.backoff_factor, rt.attempt)
        /\ policy.backoff_factor >= 1 =>
               \A n \in 1..(Len(rt.sleeps) - 1) : rt.sleeps[n] <= rt.sleeps[n + 1]

\* Two sleeps without jitter, the second one capped while the base delay has
\* grown past the cap.
C31_Witness ==
    /\ ~policy.jitter
    /\ policy.backoff_factor = 2
    /\ Len(rt.sleeps) = 2
    /\ rt.sleeps[1] < rt.sleeps[2]
    /\ rt.sleeps[2] = policy.max_delay
    /\ rt.delay > policy.max_delay
    /\ rt.pc = "call"

\* ----------------------------------------- claims on the two breakers

\* C32: the two transports are independently circuit-protected: a breaker
\* changes only in a step of a fetch through its own transport (the call
\* through the breaker, or the end of the invocation), so a call, success or
\* failure of one transport leaves the other transport's breaker as it is,
\* and a breaker is the same at the start of a fetch as at the end of the
\* previous one.
C32_BreakersIndependent ==
    [][ \A t \in Transports :
            br'[t] # br[t] => (fs.cur = t /\ fs.pc \in {"attempt", "inflight"}) ]_vars

\* The primary transport has failed and its breaker has counted it, the
\* fallback has started, and the other breaker is as the call found it.
C32_Witness ==
    /\ fs.stage = "fallback"
    /\ fs.primary = "requests"
    /\ fs.inv["requests"] > 0
    /\ fs.att["playwright"] = 0
    /\ br["requests"].failure_count > fs.br0["requests"].failure_count
    /\ br["playwright"] = fs.br0["playwright"]
    /\ br["playwright"] # NewBreakers["playwright"]

\* ------------------------------------------------- claims on HTTP 429

C34_SitesIsolated ==
    ss.pc = "done" =>
        /\ Len(ss.results) = MaxSites
        /\ ss.summary.sites_successful + ss.summary.sites_failed
               = ss.summary.sites_processed
        /\ \A i \in Sites \ {1} :
               (ss.exhausted[i - 1] /\ ss.setup[i] = "ok") =>
                   /\ ss.invoked[i] >= 1
                   /\ ss.rejected[i] = 0

\* ------------------------------------------- claims on the stored records

\* C35: across the upserts no stored record is deleted (the rows of a key
\* only grow in number), first_seen_at and created_at of a stored record never
\* change, every upsert that updates an existing record sets its last_seen_at
\* to the time of the upsert, and first_seen_at <= last_seen_at in every
\* stored record after every step (the table starts empty).
C35_RecordsKeptAndStamped ==
    [][ \A k \in Keys :
              /\ \A i \in 1..Len(store'[k]) :
                     store'[k][i].first_seen_at <= store'[k][i].last_seen_at
              /\ Len(store'[k]) >= Len(store[k])
              /\ \A i \in 1..Len(store[k]) :
                     /\ store'[k][i].first_seen_at = store[k][i].first_seen_at
                     /\ store'[k][i].created_at = store[k][i].created_at
              /\ (up'.n # up.n /\ up'.op = "updated" /\ up'.rec.name = k) =>
                     store'[k][1].last_seen_at = now ]_vars

\* A record inserted at time 0 and updated at time 2.
C35_Witness ==
    /\ up.op = "updated"
    /\ now = 2
    /\ store[up.rec.name][1].first_seen_at = 0
    /\ store[up.rec.name][1].created_at = 0
    /\ store[up.rec.name][1].last_seen_at = 2

\* ------------------------------------------------ claims on the migrations

\* C36: run_pending_migrations executes the pending files in ascending
\* filename order; a filename is added to the ledger if and only if every
\* statement of the file executed successfully; and a file whose name is in
\* the ledger is never executed again by a later run, also when the read of
\* the ledger fails.
C36_MigrationsOnceInOrder ==
    /\ \A i \in 1..Len(mg.ran) : \A j \in 1..Len(mg.ran) :
           (i < j /\ mg.ran[i].run = mg.ran[j].run) => mg.ran[i].file < mg.ran[j].file
    /\ \A i \in 1..Len(mg.ran) : mg.ran[i].recorded <=> mg.ran[i].statements_ok
    /\ \A i \in 1..Len(mg.ran) : ~mg.ran[i].was_in_ledger

\* ------------------------------------------------ claims on the change log

\* The change records of an entity, in the order they were written.
ChangesOf(k) == SelectSeq(changes, LAMBDA c : c.key = k)

\* C37: the change log of each entity is a chain consistent with the stored
\* record: the new_hash of each change record is the previous_hash of the
\* next one, and the new_hash of the latest one is the stored content_hash --
\* after any sequence of upserts, also those whose change-log write fails.
C37_ChangeLogIsChain ==
    \A k \in Keys :
        LET cs == ChangesOf(k) IN
        /\ \A i \in 1..(Len(cs) - 1) : cs[i].new_hash = cs[i + 1].previous_hash
        /\ (cs # <<>> /\ store[k] # <<>>) =>
               cs[Len(cs)].new_hash = store[k][1].content_hash

\* ------------------------------------------- claims on the use of the fallback

\* C38: the other transport is invoked only when the primary transport's
\* fetch failed.  When the primary fetch has returned the page, the fallback
\* transport is neither called nor invoked in that call, whatever _parse_page
\* then does.
C38_FallbackOnlyAfterFetchFailure ==
    (fs.pc # "idle" /\ "ok" \in fs.outs[fs.primary]) =>
        /\ fs.att[OtherTransport(fs.primary)] = 0
        /\ fs.inv[OtherTransport(fs.primary)] = 0

\* ---------------------------------------- claims on repeated failing fetches

\* C39: for sequential callers of one scraper, as long as every transport
\* invocation has failed with an error of its breaker's filter and no cooldown
\* of an OPEN breaker was found over, the aiohttp transport has been invoked
\* at most 5 times and the browser transport at most 3 times in total,
\* however many fetches were made and retried.
C39_InvocationsBoundedByThreshold ==
    (sq.all_counted /\ ~sq.reset) =>
        /\ sq.inv["requests"] <= 5
        /\ sq.inv["playwright"] <= 3

\* The third fetch through the aiohttp transport: five invocations were made
\* and counted, the breaker is OPEN and has rejected the fetch.
C39_Witness ==
    /\ sq.all_counted /\ ~sq.reset
    /\ sq.fetches = 3
    /\ sq.inv["requests"] = 5
    /\ sq.br["requests"].state = "OPEN"
    /\ sq.rejected["requests"] >= 1

\* --------------------------------------- claims on the breaker's failure time

\* C40: in every reachable state of a breaker, under any interleaving of its
\* callers, state = OPEN implies that last_failure_time is set, so the
\* cooldown check of an OPEN breaker never takes the branch for None.
C40_OpenHasFailureTime ==
    cb.state = "OPEN" => cb.last_failure_time # None

\* The breaker was opened at a later time than 0 while another caller's
\* operation was still in flight.
C40_Witness ==
    /\ cb.state = "OPEN"
    /\ cb.last_failure_time = now
    /\ now > 0
    /\ last.op = "fail"
    /\ \E c \in Callers : pc[c] = "running"
====
